---------------------------- MODULE Spec2Model ----------------------------
(***************************************************************************)
(* Model of the leak-detection engine of jest-utils                        *)
(* (src/lib/tools/memory/leak-detector.ts, class LeakDetector) and of the  *)
(* flaky-test tracker of its reporter                                      *)
(* (src/lib/reporters/memory-reporter.ts, class CustomReporter).           *)
(*                                                                         *)
(* JavaScript numbers are IEEE-754 doubles.  Heap sizes are modelled as    *)
(* exact dyadic rationals b + f/2^26 (record [b, f]); a quotient of two    *)
(* such numbers is kept as the pair [num, den] and is compared with a      *)
(* double threshold by exact natural-number arithmetic that reproduces     *)
(* round-to-nearest-even of the division.  Naturals wider than a machine   *)
(* integer are little-endian sequences of limbs in base 2^13.              *)
(***************************************************************************)
EXTENDS Integers, Sequences, FiniteSets, TLC

(***************************************************************************)
(* Bounds of the model.                                                    *)
(***************************************************************************)
\* Date.now() takes the values 0..MaxClock.
MaxClock == 1
\* Size of the block of global names a test may create at once.
MaxBulk == 9
\* A record holding this many reports is not finished once more.
MaxReports == 1
\* Largest count of active handles / listeners the environment reports.
MaxCount == 12
\* Longest run list of an identity in a history file found at startup.
MaxLoaded == 21
\* Number of results saveHistory appends to the run list of one identity.
MaxSaved == 1
\* Number of tests of one file that the hooks start and finish.
MaxTests == 2
\* Largest maxRetries passed to retryOperation.
MaxAttempts == 4
\* Latest time on the clock of the Cache specification.
MaxCacheClock == 2
\* A record holding this many reports is not finished once more when
\* finishTest is called again and again.
MaxHeld == 5
\* Number of tests of the file whose worst offenders are ranked.
MaxRun == 6

(***************************************************************************)
(* Arbitrary-size naturals: sequences of limbs, least significant first,   *)
(* without trailing zero limbs; <<>> is zero.                              *)
(***************************************************************************)
Limb == 2^13

RECURSIVE Norm(_)
Norm(s) == IF s = <<>> THEN <<>>
           ELSE IF s[Len(s)] = 0 THEN Norm(SubSeq(s, 1, Len(s) - 1))
           ELSE s

\* n is a natural below 2^31.
FromInt(n) == Norm(<<n % Limb, (n \div Limb) % Limb, n \div (Limb * Limb)>>)

RECURSIVE AddC(_, _, _)
AddC(a, b, c) ==
    IF a = <<>> /\ b = <<>> THEN (IF c = 0 THEN <<>> ELSE <<c>>)
    ELSE LET x == IF a = <<>> THEN 0 ELSE Head(a)
             y == IF b = <<>> THEN 0 ELSE Head(b)
             s == x + y + c
         IN  <<s % Limb>> \o AddC(IF a = <<>> THEN <<>> ELSE Tail(a),
                                  IF b = <<>> THEN <<>> ELSE Tail(b),
                                  s \div Limb)

AddN(a, b) == Norm(AddC(a, b, 0))

RECURSIVE MulC(_, _, _)
\* a times the limb k, plus the carry c.
MulC(a, k, c) ==
    IF a = <<>> THEN (IF c = 0 THEN <<>> ELSE <<c>>)
    ELSE LET p == Head(a) * k + c
         IN  <<p % Limb>> \o MulC(Tail(a), k, p \div Limb)

RECURSIVE MulN(_, _)
MulN(a, b) ==
    IF a = <<>> \/ b = <<>> THEN <<>>
    ELSE AddN(Norm(MulC(b, Head(a), 0)),
              LET r == MulN(Tail(a), b)
              IN  IF r = <<>> THEN <<>> ELSE <<0>> \o r)

RECURSIVE Zeros(_)
Zeros(k) == IF k = 0 THEN <<>> ELSE <<0>> \o Zeros(k - 1)

\* a * 2^k
ShiftN(a, k) ==
    IF a = <<>> THEN <<>> ELSE Zeros(k \div 13) \o MulC(a, 2^(k % 13), 0)

RECURSIVE CmpFrom(_, _, _)
CmpFrom(a, b, i) ==
    IF i = 0 THEN 0
    ELSE IF a[i] > b[i] THEN 1
    ELSE IF a[i] < b[i] THEN -1
    ELSE CmpFrom(a, b, i - 1)

\* -1, 0 or 1 as a < b, a = b, a > b (both normalised).
CmpN(a, b) ==
    IF Len(a) > Len(b) THEN 1
    ELSE IF Len(a) < Len(b) THEN -1
    ELSE CmpFrom(a, b, Len(a))

\* hi * 2^26 + lo, for naturals hi < 2^31 and lo < 2^26.
BigOf(hi, lo) ==
    LET h == FromInt(hi)
    IN  AddN(FromInt(lo), IF h = <<>> THEN <<>> ELSE <<0, 0>> \o h)

(***************************************************************************)
(* JavaScript numbers.                                                     *)
(***************************************************************************)
Frac == 2^26
MB == 1024 * 1024

\* The number b + f / 2^26, with 0 <= f < 2^26.
Num(b, f) == [b |-> b, f |-> f]
IntNum(n) == Num(n, 0)

\* x - y.  Exact in double arithmetic for the values the model draws: every
\* value is a multiple of 2^-26 and every difference is below 2^27 in size.
NumSub(x, y) ==
    IF x.f >= y.f THEN Num(x.b - y.b, x.f - y.f)
    ELSE Num(x.b - y.b - 1, x.f - y.f + Frac)

NumSign(x) == IF x.b < 0 THEN -1 ELSE IF x.b = 0 /\ x.f = 0 THEN 0 ELSE 1

NumAbs(x) ==
    IF x.b >= 0 THEN x
    ELSE IF x.f = 0 THEN Num(-x.b, 0)
    ELSE Num(-x.b - 1, Frac - x.f)

\* |x| in units of 2^-26, as a natural.
NumMag(x) == BigOf(NumAbs(x).b, NumAbs(x).f)

\* The positive double (hi * 2^26 + lo) / 2^e with a 53-bit significand,
\* 2^26 <= hi < 2^27.  mid is twice the significand plus one: mid / 2^(e+1)
\* is the midpoint of this double and the next one.
Dbl(hi, lo, e) ==
    [hi |-> hi, lo |-> lo, e |-> e,
     mid |-> AddN(MulC(BigOf(hi, lo), 2, 0), <<1>>)]

\* The double of a whole number 1 <= k < 2^27.
IntDbl(k) ==
    LET j == CHOOSE i \in 0..26 : k * 2^i >= Frac /\ k * 2^i < 2 * Frac
    IN  Dbl(k * 2^j, 0, 26 + j)

\* The number fl(num / den): the quotient as the division operator of
\* JavaScript rounds it.  den = 0 gives Infinity, -Infinity or NaN.
Quot(num, den) == [num |-> num, den |-> den]

\* fl(q.num / q.den) > t, for a positive double t.  With t+ the double after
\* t, the rounded quotient exceeds t iff the exact quotient lies above the
\* midpoint of t and t+, or on it when the tie goes to t+ (t's significand
\* is odd).  Infinity > t holds; -Infinity > t and NaN > t do not.
QuotGt(q, t) ==
    LET sn == NumSign(q.num)
        sd == NumSign(q.den)
        c == CmpN(ShiftN(NumMag(q.num), t.e + 1), MulN(NumMag(q.den), t.mid))
    IN  IF sd = 0 THEN sn > 0
        ELSE IF sn * sd <= 0 THEN FALSE
        ELSE c > 0 \/ (c = 0 /\ t.lo % 2 = 1)

RECURSIVE DivFrom(_, _, _, _)
\* The limbs 1..i of a, below the remainder r of the limbs above them,
\* divided by d < 2^17.
DivFrom(a, d, i, r) ==
    IF i = 0 THEN [q |-> <<>>, r |-> r]
    ELSE LET x == r * Limb + a[i]
             rest == DivFrom(a, d, i - 1, x % d)
         IN  [q |-> rest.q \o <<x \div d>>, r |-> rest.r]

\* Quotient and remainder of the natural a by d, 0 < d < 2^17.
DivSmall(a, d) ==
    LET x == DivFrom(a, d, Len(a), 0) IN [q |-> Norm(x.q), r |-> x.r]

\* floor(a / 2^n)
FloorShift(a, n) ==
    IF Len(a) <= n \div 13 THEN <<>>
    ELSE DivSmall(SubSeq(a, n \div 13 + 1, Len(a)), 2^(n % 13)).q

\* The value of a natural below 2^31.
ToInt(a) ==
    (IF Len(a) >= 1 THEN a[1] ELSE 0)
    + (IF Len(a) >= 2 THEN a[2] * Limb ELSE 0)
    + (IF Len(a) >= 3 THEN a[3] * Limb * Limb ELSE 0)

\* a / d rounded to a whole number, ties to even.
RoundEven(a, d) ==
    LET x == DivSmall(a, d)
        odd == x.q # <<>> /\ x.q[1] % 2 = 1
    IN  IF 2 * x.r > d \/ (2 * x.r = d /\ odd) THEN AddN(x.q, <<1>>)
        ELSE x.q

\* A computed double m / 2^k, m a natural of 53 bits (0 is m = <<>>).
\* fl(num / den) for whole numbers 0 <= num < 2^15 and 0 < den < 2^15.
FlDiv(num, den) ==
    IF num = 0 THEN [m |-> <<>>, k |-> 0]
    ELSE LET e == CHOOSE i \in -16..16 :
                    IF i >= 0
                    THEN den * 2^i <= num /\ num < den * 2^(i + 1)
                    ELSE den <= num * 2^(-i) /\ num * 2^(-i) < 2 * den
             k == 52 - e
         IN  [m |-> RoundEven(ShiftN(FromInt(num), k), den), k |-> k]

\* fl(x * c) for a whole number 1 <= c < 2^7.
FlMul(x, c) ==
    IF x.m = <<>> THEN x
    ELSE LET p == MulC(x.m, c, 0)
             s == CHOOSE i \in 0..7 :
                    /\ CmpN(p, ShiftN(<<1>>, 52 + i)) >= 0
                    /\ CmpN(p, ShiftN(<<1>>, 53 + i)) < 0
         IN  [m |-> RoundEven(p, 2^s), k |-> x.k - s]

\* Math.round(x) = floor(x + 0.5), for 0 <= x < 2^31.
MathRound(x) ==
    ToInt(FloorShift(AddN(MulC(x.m, 2, 0), ShiftN(<<1>>, x.k)), x.k + 1))

\* x >= t, for a computed double x and a positive double t.
FlGe(x, t) ==
    CmpN(ShiftN(x.m, t.e), ShiftN(BigOf(t.hi, t.lo), x.k)) >= 0

(***************************************************************************)
(* Optional values (a field that may be undefined, a result that may be    *)
(* null) are sequences of length at most one.                              *)
(***************************************************************************)
None == <<>>
Some(v) == <<v>>

(***************************************************************************)
(* State of one LeakDetector, of the reporter's flaky tracker, of the      *)
(* files and of the clock; of the setup file that drives the detector from *)
(* the test hooks; of one Cache.                                           *)
(***************************************************************************)
VARIABLES
    options,      \* this.options, set by the constructor
    testMetrics,  \* this.testMetrics: Map in insertion order, <<[key, val]>>
    currentTest,  \* this.globalState.currentTest
    now,          \* Date.now()
    ret,          \* the last call of a public method and what it returned
    flakyTracker, \* this.flakyTracker of the reporter, None while there is none
    fs,           \* the files: the flaky history file and the log file
    hooks,        \* jest.setup.memory.ts: currentTestId, testSummary, last hook
    cache,        \* one Cache: defaultTtl and storage, None while there is none
    currentLeakTestId  \* this.currentLeakTestId of the reporter, None for null

vars ==
    <<options, testMetrics, currentTest, now, ret, flakyTracker, fs, hooks,
      cache, currentLeakTestId>>

(***************************************************************************)
(* The Map this.testMetrics.                                               *)
(***************************************************************************)
MapKeys(m) == {m[i].key : i \in DOMAIN m}
MapHas(m, k) == \E i \in DOMAIN m : m[i].key = k
MapIndex(m, k) == CHOOSE i \in DOMAIN m : m[i].key = k
MapGet(m, k) == m[MapIndex(m, k)].val
\* Map.prototype.set: an existing key keeps its place, a new key goes last.
MapSet(m, k, v) ==
    IF MapHas(m, k)
    THEN [m EXCEPT ![MapIndex(m, k)] = [key |-> k, val |-> v]]
    ELSE Append(m, [key |-> k, val |-> v])

(***************************************************************************)
(* The constructor.  o holds the options the caller passed, each one       *)
(* absent (None) or given (Some).                                          *)
(***************************************************************************)
\* 0.2 as a double, the default heapGrowthThreshold.
DefaultHeapGrowthThreshold == Dbl(107374182, 26843546, 55)
\* 50, the default memoryThresholdMB.
DefaultMemoryThresholdMB == IntDbl(50)

NoOptions ==
    [memoryThresholdMB |-> None, heapGrowthThreshold |-> None,
     trackEventListeners |-> None, trackTimers |-> None,
     trackGlobals |-> None, generateHeapSnapshots |-> None,
     excludePatterns |-> None]

constructor(o) ==
    [memoryThresholdMB |->
        IF o.memoryThresholdMB = None THEN DefaultMemoryThresholdMB
        ELSE o.memoryThresholdMB[1],
     heapGrowthThreshold |->
        IF o.heapGrowthThreshold = None THEN DefaultHeapGrowthThreshold
        ELSE o.heapGrowthThreshold[1],
     trackEventListeners |-> o.trackEventListeners # Some(FALSE),
     trackTimers |-> o.trackTimers # Some(FALSE),
     trackGlobals |-> o.trackGlobals # Some(FALSE),
     generateHeapSnapshots |->
        IF o.generateHeapSnapshots = None THEN FALSE
        ELSE o.generateHeapSnapshots[1],
     excludePatterns |->
        IF o.excludePatterns = None THEN <<>> ELSE o.excludePatterns[1]]

(***************************************************************************)
(* Snapshot capture.  env is the state of the process at the call:         *)
(* heapUsed, the own property names of the global object in their order,   *)
(* the active handles and requests, the listener count.  A host without    *)
(* process._getActiveHandles and process._getActiveRequests has an env     *)
(* without the fields handles and requests, and a host without             *)
(* process.listenerCount has an env without the field listeners.           *)
(***************************************************************************)
getMemoryUsage(env) == [heapUsed |-> env.heapUsed]
captureGlobalState(env) == env.globalNames
\* captureTimerState calls both functions without looking whether they are
\* there: the call of a missing one throws a TypeError.
captureTimerStateThrows(env) == ~({"handles", "requests"} \subseteq DOMAIN env)
captureTimerState(env) == [count |-> env.handles + env.requests]
\* The count is 0 when typeof process.listenerCount is not 'function'.
captureEventListenerState(env) ==
    [count |-> IF "listeners" \in DOMAIN env THEN env.listeners ELSE 0]

(***************************************************************************)
(* The four checks of finishTest.  Each takes the record and the options   *)
(* and gives the record with the reports it pushed.  A report's message    *)
(* and recommendation are texts fixed by its type and details and are      *)
(* left out.                                                               *)
(***************************************************************************)
\* Mutant: the growth-rate check is an `if` of its own, not an `else if`.
analyzeMemoryLeakBoth(metrics, opts) ==
    IF metrics.finalMemory = None THEN metrics
    ELSE
    LET final == metrics.finalMemory[1]
        memoryDiff == NumSub(final.heapUsed, metrics.initialMemory.heapUsed)
        memoryDiffMB == Quot(memoryDiff, IntNum(MB))
        heapGrowthRate == Quot(memoryDiff, metrics.initialMemory.heapUsed)
        leaks == IF QuotGt(memoryDiffMB, opts.memoryThresholdMB)
                 THEN <<[type |-> "MEMORY_LEAK", severity |-> "high",
                         details |-> [initialHeapUsed |-> metrics.initialMemory.heapUsed,
                                      finalHeapUsed |-> final.heapUsed,
                                      difference |-> memoryDiff,
                                      growthRate |-> heapGrowthRate]]>>
                 ELSE <<>>
        warns == IF QuotGt(heapGrowthRate, opts.heapGrowthThreshold)
                 THEN <<[type |-> "MEMORY_GROWTH", severity |-> "medium",
                         details |-> [growthRate |-> heapGrowthRate,
                                      memoryDiffMB |-> memoryDiffMB]]>>
                 ELSE <<>>
    IN  [metrics EXCEPT !.leaksDetected = @ \o leaks, !.warnings = @ \o warns]

\* Mutant: the growth rate is taken over the final heap, not the initial.
analyzeMemoryLeakOverFinal(metrics, opts) ==
    IF metrics.finalMemory = None THEN metrics
    ELSE
    LET final == metrics.finalMemory[1]
        memoryDiff == NumSub(final.heapUsed, metrics.initialMemory.heapUsed)
        memoryDiffMB == Quot(memoryDiff, IntNum(MB))
        heapGrowthRate == Quot(memoryDiff, final.heapUsed)
    IN  IF QuotGt(memoryDiffMB, opts.memoryThresholdMB)
        THEN [metrics EXCEPT !.leaksDetected = Append(@,
                [type |-> "MEMORY_LEAK", severity |-> "high",
                 details |-> [initialHeapUsed |-> metrics.initialMemory.heapUsed,
                              finalHeapUsed |-> final.heapUsed,
                              difference |-> memoryDiff,
                              growthRate |-> heapGrowthRate]])]
        ELSE IF QuotGt(heapGrowthRate, opts.heapGrowthThreshold)
        THEN [metrics EXCEPT !.warnings = Append(@,
                [type |-> "MEMORY_GROWTH", severity |-> "medium",
                 details |-> [growthRate |-> heapGrowthRate,
                              memoryDiffMB |-> memoryDiffMB]])]
        ELSE metrics

\* Mutant: the growth-rate report is pushed to leaksDetected.
analyzeMemoryLeakMisfiled(metrics, opts) ==
    IF metrics.finalMemory = None THEN metrics
    ELSE
    LET final == metrics.finalMemory[1]
        memoryDiff == NumSub(final.heapUsed, metrics.initialMemory.heapUsed)
        memoryDiffMB == Quot(memoryDiff, IntNum(MB))
        heapGrowthRate == Quot(memoryDiff, metrics.initialMemory.heapUsed)
    IN  IF QuotGt(memoryDiffMB, opts.memoryThresholdMB)
        THEN [metrics EXCEPT !.leaksDetected = Append(@,
                [type |-> "MEMORY_LEAK", severity |-> "high",
                 details |-> [initialHeapUsed |-> metrics.initialMemory.heapUsed,
                              finalHeapUsed |-> final.heapUsed,
                              difference |-> memoryDiff,
                              growthRate |-> heapGrowthRate]])]
        ELSE IF QuotGt(heapGrowthRate, opts.heapGrowthThreshold)
        THEN [metrics EXCEPT !.leaksDetected = Append(@,
                [type |-> "MEMORY_GROWTH", severity |-> "medium",
                 details |-> [growthRate |-> heapGrowthRate,
                              memoryDiffMB |-> memoryDiffMB]])]
        ELSE metrics
analyzeMemoryLeak(metrics, opts) ==
    IF metrics.finalMemory = None THEN metrics
    ELSE
    LET final == metrics.finalMemory[1]
        memoryDiff == NumSub(final.heapUsed, metrics.initialMemory.heapUsed)
        memoryDiffMB == Quot(memoryDiff, IntNum(MB))
        heapGrowthRate == Quot(memoryDiff, metrics.initialMemory.heapUsed)
    IN  IF QuotGt(memoryDiffMB, opts.memoryThresholdMB)
        THEN [metrics EXCEPT !.leaksDetected = Append(@,
                [type |-> "MEMORY_LEAK",
                 severity |-> "high",
                 details |-> [initialHeapUsed |-> metrics.initialMemory.heapUsed,
                              finalHeapUsed |-> final.heapUsed,
                              difference |-> memoryDiff,
                              growthRate |-> heapGrowthRate]])]
        ELSE IF QuotGt(heapGrowthRate, opts.heapGrowthThreshold)
        THEN [metrics EXCEPT !.warnings = Append(@,
                [type |-> "MEMORY_GROWTH",
                 severity |-> "medium",
                 details |-> [growthRate |-> heapGrowthRate,
                              memoryDiffMB |-> memoryDiffMB]])]
        ELSE metrics

\* Mutant: the names that disappeared are reported as well.
diffGlobalStateBothWays(initial, final) ==
    LET Missing(s, t) == SelectSeq(s, LAMBDA x : \A k \in DOMAIN t : t[k] # x)
    IN  Missing(final, initial) \o Missing(initial, final)

\* The names of final that initial does not hold, in final's order.
RECURSIVE diffGlobalState(_, _)
diffGlobalState(initial, final) ==
    IF final = <<>> THEN <<>>
    ELSE (IF \E i \in DOMAIN initial : initial[i] = Head(final)
          THEN <<>> ELSE <<Head(final)>>)
         \o diffGlobalState(initial, Tail(final))

\* Array.prototype.slice(0, n)
Slice0(s, n) == SubSeq(s, 1, IF Len(s) < n THEN Len(s) ELSE n)

\* Mutant: five new names already count as high.
analyzeGlobalLeakFive(metrics, opts) ==
    IF ~opts.trackGlobals \/ metrics.finalGlobals = None THEN metrics
    ELSE
    LET newGlobals == diffGlobalState(metrics.initialGlobals,
                                      metrics.finalGlobals[1])
    IN  IF Len(newGlobals) > 0
        THEN [metrics EXCEPT !.leaksDetected = Append(@,
                [type |-> "GLOBAL_VARIABLE_LEAK",
                 severity |-> IF Len(newGlobals) >= 5 THEN "high" ELSE "medium",
                 details |-> [newGlobals |-> Slice0(newGlobals, 10),
                              totalCount |-> Len(newGlobals)]])]
        ELSE metrics

analyzeGlobalLeak(metrics, opts) ==
    IF ~opts.trackGlobals \/ metrics.finalGlobals = None THEN metrics
    ELSE
    LET newGlobals == diffGlobalState(metrics.initialGlobals,
                                      metrics.finalGlobals[1])
    IN  IF Len(newGlobals) > 0
        THEN [metrics EXCEPT !.leaksDetected = Append(@,
                [type |-> "GLOBAL_VARIABLE_LEAK",
                 severity |-> IF Len(newGlobals) > 5 THEN "high" ELSE "medium",
                 details |-> [newGlobals |-> Slice0(newGlobals, 10),
                              totalCount |-> Len(newGlobals)]])]
        ELSE metrics

\* Mutant: the timer check does not look at trackTimers.
analyzeTimerLeakAlways(metrics, opts) ==
    IF metrics.finalTimers = None THEN metrics
    ELSE
    LET timerDiff == metrics.finalTimers[1].count - metrics.initialTimers.count
    IN  IF timerDiff > 0
        THEN [metrics EXCEPT !.leaksDetected = Append(@,
                [type |-> "TIMER_LEAK",
                 severity |-> IF timerDiff > 5 THEN "high" ELSE "medium",
                 details |-> [initialCount |-> metrics.initialTimers.count,
                              finalCount |-> metrics.finalTimers[1].count,
                              leakedTimers |-> timerDiff]])]
        ELSE metrics

analyzeTimerLeak(metrics, opts) ==
    IF ~opts.trackTimers \/ metrics.finalTimers = None THEN metrics
    ELSE
    LET timerDiff == metrics.finalTimers[1].count - metrics.initialTimers.count
    IN  IF timerDiff > 0
        THEN [metrics EXCEPT !.leaksDetected = Append(@,
                [type |-> "TIMER_LEAK",
                 severity |-> IF timerDiff > 5 THEN "high" ELSE "medium",
                 details |-> [initialCount |-> metrics.initialTimers.count,
                              finalCount |-> metrics.finalTimers[1].count,
                              leakedTimers |-> timerDiff]])]
        ELSE metrics

\* Mutant: the listener check uses the threshold of the timer check.
analyzeEventListenerLeakFive(metrics, opts) ==
    IF ~opts.trackEventListeners \/ metrics.finalEventListeners = None
    THEN metrics
    ELSE
    LET listenerDiff == metrics.finalEventListeners[1].count
                        - metrics.initialEventListeners.count
    IN  IF listenerDiff > 0
        THEN [metrics EXCEPT !.leaksDetected = Append(@,
                [type |-> "EVENT_LISTENER_LEAK",
                 severity |-> IF listenerDiff > 5 THEN "high" ELSE "medium",
                 details |-> [initialCount |-> metrics.initialEventListeners.count,
                              finalCount |-> metrics.finalEventListeners[1].count,
                              leakedListeners |-> listenerDiff]])]
        ELSE metrics

analyzeEventListenerLeak(metrics, opts) ==
    IF ~opts.trackEventListeners \/ metrics.finalEventListeners = None
    THEN metrics
    ELSE
    LET listenerDiff == metrics.finalEventListeners[1].count
                        - metrics.initialEventListeners.count
    IN  IF listenerDiff > 0
        THEN [metrics EXCEPT !.leaksDetected = Append(@,
                [type |-> "EVENT_LISTENER_LEAK",
                 severity |-> IF listenerDiff > 10 THEN "high" ELSE "medium",
                 details |-> [initialCount |-> metrics.initialEventListeners.count,
                              finalCount |-> metrics.finalEventListeners[1].count,
                              leakedListeners |-> listenerDiff]])]
        ELSE metrics

(***************************************************************************)
(* getSummary, as a function of the Map.                                   *)
(***************************************************************************)
MapValues(m) == [i \in DOMAIN m |-> m[i].val]

RECURSIVE Sum(_)
\* s.reduce((sum, n) => sum + n, 0)
Sum(s) == IF s = <<>> THEN 0 ELSE Head(s) + Sum(Tail(s))

RECURSIVE Flatten(_)
Flatten(s) == IF s = <<>> THEN <<>> ELSE Head(s) \o Flatten(Tail(s))

HasLeaks(m) == Len(m.leaksDetected) > 0
HasWarnings(m) == Len(m.warnings) > 0

\* Mutant: every type counts once (leakTypes[leak.type] = 1).
LeakTypeBreakdownOnce(allMetrics) ==
    LET leaks == Flatten([i \in DOMAIN allMetrics |-> allMetrics[i].leaksDetected])
        types == {leaks[i].type : i \in DOMAIN leaks}
    IN  [t \in types |-> 1]

\* leakTypes: for each type that occurs, the number of leak reports of it.
LeakTypeBreakdown(allMetrics) ==
    LET leaks == Flatten([i \in DOMAIN allMetrics |-> allMetrics[i].leaksDetected])
        types == {leaks[i].type : i \in DOMAIN leaks}
    IN  [t \in types |-> Cardinality({i \in DOMAIN leaks : leaks[i].type = t})]

RECURSIVE InsertAsc(_, _)
\* Mutant: the comparator is a.leaksDetected.length - b.leaksDetected.length,
\* the fewest leaks first.
InsertAsc(s, m) ==
    IF s = <<>> THEN <<m>>
    ELSE IF Len(Head(s).leaksDetected) <= Len(m.leaksDetected)
         THEN <<Head(s)>> \o InsertAsc(Tail(s), m)
         ELSE <<m>> \o s
RECURSIVE InsertDesc(_, _)
\* m put into s, sorted by descending leak count, after its equals.
InsertDesc(s, m) ==
    IF s = <<>> THEN <<m>>
    ELSE IF Len(Head(s).leaksDetected) >= Len(m.leaksDetected)
         THEN <<Head(s)>> \o InsertDesc(Tail(s), m)
         ELSE <<m>> \o s

RECURSIVE SortDesc(_)
\* Array.prototype.sort((a, b) => b.leaksDetected.length -
\* a.leaksDetected.length), a stable sort.
SortDesc(s) ==
    IF s = <<>> THEN <<>>
    ELSE InsertDesc(SortDesc(SubSeq(s, 1, Len(s) - 1)), s[Len(s)])

Offender(m) ==
    [test |-> m.testFile \o " > " \o m.testName,
     leakCount |-> Len(m.leaksDetected),
     \* the quotient that toFixed(2) renders, None for 'N/A'
     memoryImpact |->
        IF m.finalMemory = None THEN None
        ELSE Some(Quot(NumSub(m.finalMemory[1].heapUsed,
                              m.initialMemory.heapUsed), IntNum(MB)))]

getSummary(tm) ==
    LET allMetrics == MapValues(tm)
        testsWithLeaks == SelectSeq(allMetrics, HasLeaks)
        testsWithWarnings == SelectSeq(allMetrics, HasWarnings)
        worst == Slice0(SortDesc(testsWithLeaks), 5)
    IN  [totalTests |-> Len(allMetrics),
         testsWithLeaks |-> Len(testsWithLeaks),
         testsWithWarnings |-> Len(testsWithWarnings),
         totalLeaks |->
            Sum([i \in DOMAIN allMetrics |-> Len(allMetrics[i].leaksDetected)]),
         totalWarnings |->
            Sum([i \in DOMAIN allMetrics |-> Len(allMetrics[i].warnings)]),
         leakTypeBreakdown |-> LeakTypeBreakdown(allMetrics),
         worstOffenders |-> [i \in DOMAIN worst |-> Offender(worst[i])]]

(***************************************************************************)
(* The public methods.  ret records the call: the method, its arguments,   *)
(* the process state it captured (env, None when it captured nothing), the *)
(* clock at the call, the value it returned and whether it threw instead.  *)
(***************************************************************************)
Returned(op, args, env, val) ==
    [op |-> op, args |-> args, env |-> env, time |-> now,
     val |-> val, threw |-> FALSE]

\* The call threw.
Thrown(op, args) ==
    [op |-> op, args |-> args, env |-> None, time |-> now,
     val |-> None, threw |-> TRUE]

\* The record startTest allocates.
NewMetrics(testName, testFile, env) ==
    [testName |-> testName,
     testFile |-> testFile,
     startTime |-> now,
     endTime |-> None,
     duration |-> None,
     status |-> None,
     initialMemory |-> getMemoryUsage(env),
     finalMemory |-> None,
     initialGlobals |-> captureGlobalState(env),
     finalGlobals |-> None,
     initialTimers |-> captureTimerState(env),
     finalTimers |-> None,
     initialEventListeners |-> captureEventListenerState(env),
     finalEventListeners |-> None,
     leaksDetected |-> <<>>,
     warnings |-> <<>>]

\* Mutant: the id is built as name + " > " + file.
startTestSwapped(testName, testFile, env) ==
    LET testId == testName \o " > " \o testFile
    IN  /\ currentTest' = Some(testId)
        /\ testMetrics' = MapSet(testMetrics, testId,
                                 NewMetrics(testName, testFile, env))
        /\ ret' = Returned("startTest", <<testName, testFile>>, Some(env),
                           Some(testId))
        /\ UNCHANGED <<options, now, flakyTracker, fs, cache>>

\* Mutant: an identity that has a record keeps it.
startTestKeeping(testName, testFile, env) ==
    LET testId == testFile \o " > " \o testName
    IN  /\ currentTest' = Some(testId)
        /\ testMetrics' = IF MapHas(testMetrics, testId) THEN testMetrics
                          ELSE MapSet(testMetrics, testId,
                                      NewMetrics(testName, testFile, env))
        /\ ret' = Returned("startTest", <<testName, testFile>>, Some(env),
                           Some(testId))
        /\ UNCHANGED <<options, now, flakyTracker, fs, cache>>
\* startTest: currentTest is set first; the record is built, which
\* captures the four snapshots, and only then stored.
startTest(testName, testFile, env) ==
    LET testId == testFile \o " > " \o testName
    IN  IF captureTimerStateThrows(env)
        THEN /\ currentTest' = Some(testId)
             /\ ret' = Thrown("startTest", <<testName, testFile>>)
             /\ UNCHANGED <<options, testMetrics, now, flakyTracker, fs, cache>>
        ELSE /\ currentTest' = Some(testId)
             /\ testMetrics' = MapSet(testMetrics, testId,
                                      NewMetrics(testName, testFile, env))
             /\ ret' = Returned("startTest", <<testName, testFile>>,
                                Some(env), Some(testId))
             /\ UNCHANGED <<options, now, flakyTracker, fs, cache>>

\* Mutant: finishTest takes the start time anew.
FinalizedRestamped(metrics, status, env, opts) ==
    LET captured ==
            [metrics EXCEPT
                !.startTime = now,
                !.endTime = Some(now),
                !.finalMemory = Some(getMemoryUsage(env)),
                !.finalGlobals = Some(captureGlobalState(env)),
                !.finalTimers = Some(captureTimerState(env)),
                !.finalEventListeners = Some(captureEventListenerState(env)),
                !.status = Some(status),
                !.duration = Some(0)]
    IN  analyzeEventListenerLeak(
            analyzeTimerLeak(
                analyzeGlobalLeak(
                    analyzeMemoryLeak(captured, opts), opts), opts), opts)

\* The record after finishTest captured the final state and ran the checks.
Finalized(metrics, status, env, opts) ==
    LET captured ==
            [metrics EXCEPT
                !.endTime = Some(now),
                !.finalMemory = Some(getMemoryUsage(env)),
                !.finalGlobals = Some(captureGlobalState(env)),
                !.finalTimers = Some(captureTimerState(env)),
                !.finalEventListeners = Some(captureEventListenerState(env)),
                !.status = Some(status),
                !.duration = Some(now - metrics.startTime)]
    IN  analyzeEventListenerLeak(
            analyzeTimerLeak(
                analyzeGlobalLeak(
                    analyzeMemoryLeak(captured, opts), opts), opts), opts)

\* Mutant: an id without a record is finished as a record opened just now.
finishTestUnguarded(testId, status, env) ==
    LET found == IF MapHas(testMetrics, testId)
                 THEN MapGet(testMetrics, testId)
                 ELSE NewMetrics(testId, "", env)
        metrics == Finalized(found, status, env, options)
    IN  /\ testMetrics' = MapSet(testMetrics, testId, metrics)
        /\ currentTest' = None
        /\ ret' = Returned("finishTest", <<testId, status>>, Some(env),
                           Some(metrics))
        /\ UNCHANGED <<options, now, flakyTracker, fs, cache>>

UpperCase == "ABCDEFGHIJKLMNOPQRSTUVWXYZ"
LowerCase == "abcdefghijklmnopqrstuvwxyz"
\* testId.replace(/[^a-zA-Z0-9-_]/g, '_')
RECURSIVE Sanitized(_)
Sanitized(text) ==
    IF Len(text) = 0 THEN ""
    ELSE LET kept == UpperCase \o LowerCase \o "0123456789-_"
             c == SubSeq(text, 1, 1)
         IN  (IF \E i \in 1..Len(kept) : SubSeq(kept, i, i) = c
              THEN c ELSE "_")
             \o Sanitized(SubSeq(text, 2, Len(text)))

HeapSnapshotDir == "reports/heap-snapshots"
\* path.join(heapSnapshotDir, `heap-${sanitizedTestId}-${Date.now()}.heapsnapshot`)
HeapSnapshotPath(testId) ==
    HeapSnapshotDir \o "/heap-" \o Sanitized(testId) \o "-" \o ToString(now)
    \o ".heapsnapshot"

\* generateHeapSnapshot, given the files: v8.writeHeapSnapshot writes the
\* file or throws, and what it throws is caught and logged.
generateHeapSnapshot(files, testId) ==
    IF files.snapshotsWritable
    THEN [files EXCEPT !.snapshots = @ \cup {HeapSnapshotPath(testId)}]
    ELSE files

\* Mutant: a snapshot is written for a record with warnings as well.
finishTestSnapshotOnWarnings(testId, status, env) ==
    IF ~MapHas(testMetrics, testId)
    THEN /\ ret' = Returned("finishTest", <<testId, status>>, None, None)
         /\ UNCHANGED <<options, testMetrics, currentTest, now, flakyTracker,
                        fs, cache>>
    ELSE LET metrics == Finalized(MapGet(testMetrics, testId), status, env,
                                  options)
         IN  /\ testMetrics' = MapSet(testMetrics, testId, metrics)
             /\ fs' = IF /\ options.generateHeapSnapshots
                         /\ Len(metrics.leaksDetected) + Len(metrics.warnings) > 0
                      THEN generateHeapSnapshot(fs, testId) ELSE fs
             /\ currentTest' = None
             /\ ret' = Returned("finishTest", <<testId, status>>, Some(env),
                                Some(metrics))
             /\ UNCHANGED <<options, now, flakyTracker, cache>>
\* finishTest: the record is updated in place, field by field, so a throw
\* of captureTimerState leaves it with the end time, the final memory and
\* the final globals and nothing else.
finishTest(testId, status, env) ==
    IF ~MapHas(testMetrics, testId)
    THEN /\ ret' = Returned("finishTest", <<testId, status>>, None, None)
         /\ UNCHANGED <<options, testMetrics, currentTest, now, flakyTracker,
                        fs, cache>>
    ELSE IF captureTimerStateThrows(env)
    THEN /\ testMetrics' =
               MapSet(testMetrics, testId,
                      [MapGet(testMetrics, testId) EXCEPT
                          !.endTime = Some(now),
                          !.finalMemory = Some(getMemoryUsage(env)),
                          !.finalGlobals = Some(captureGlobalState(env))])
         /\ ret' = Thrown("finishTest", <<testId, status>>)
         /\ UNCHANGED <<options, currentTest, now, flakyTracker, fs, cache>>
    ELSE LET metrics == Finalized(MapGet(testMetrics, testId), status, env,
                                  options)
         IN  /\ testMetrics' = MapSet(testMetrics, testId, metrics)
             /\ fs' = IF /\ options.generateHeapSnapshots
                         /\ Len(metrics.leaksDetected) > 0
                      THEN generateHeapSnapshot(fs, testId) ELSE fs
             /\ currentTest' = None
             /\ ret' = Returned("finishTest", <<testId, status>>, Some(env),
                                Some(metrics))
             /\ UNCHANGED <<options, now, flakyTracker, cache>>

\* Mutant: getSummary reverses the leak reports of the held records in place.
GetSummaryReversing ==
    /\ ret' = Returned("getSummary", <<>>, None, Some(getSummary(testMetrics)))
    /\ testMetrics' =
          [i \in DOMAIN testMetrics |->
              [testMetrics[i] EXCEPT !.val.leaksDetected =
                  [j \in DOMAIN @ |-> @[Len(@) + 1 - j]]]]
    /\ UNCHANGED <<options, currentTest, now, flakyTracker, fs, cache>>

GetSummary ==
    /\ ret' = Returned("getSummary", <<>>, None, Some(getSummary(testMetrics)))
    /\ UNCHANGED <<options, testMetrics, currentTest, now, flakyTracker, fs,
                   cache>>

\* Mutant: cleanup discards the finished records and keeps those in flight.
cleanupFinished ==
    /\ testMetrics' = SelectSeq(testMetrics, LAMBDA e : e.val.status = None)
    /\ currentTest' = None
    /\ ret' = Returned("cleanup", <<>>, None, None)
    /\ UNCHANGED <<options, now, flakyTracker, fs, cache>>

cleanup ==
    /\ testMetrics' = <<>>
    /\ currentTest' = None
    /\ ret' = Returned("cleanup", <<>>, None, None)
    /\ UNCHANGED <<options, now, flakyTracker, fs, cache>>

\* Time passes between calls.
Tick ==
    /\ now < MaxClock
    /\ now' = now + 1
    /\ UNCHANGED <<options, testMetrics, currentTest, ret, flakyTracker, fs,
                   hooks, cache, currentLeakTestId>>

(***************************************************************************)
(* The flaky-test tracker of the reporter.                                 *)
(*                                                                         *)
(* fs.historyFile is the history file: missing, unreadable (readFileSync   *)
(* throws), invalid (JSON.parse throws) or ok, and then data is the JSON   *)
(* document it holds: the object of the identities, as the sequence of its *)
(* [key, val] entries in property order (identities hold " > " and so are  *)
(* never integer-like keys), each val a record [runs].  A timestamp, the   *)
(* ISO string of a time, is modelled by that time.                         *)
(***************************************************************************)
HistoryFile(state, data) == [state |-> state, data |-> data]

\* No history file and no heap snapshot; the history file, the log file
\* and heap snapshots can be written.
NoFiles ==
    [historyFile |-> HistoryFile("missing", <<>>),
     historyWritable |-> TRUE,
     logWritable |-> TRUE,
     snapshots |-> {},
     snapshotsWritable |-> TRUE]

\* this.log(...) throws: fs.appendFileSync(this.logFile, ...) is not
\* guarded, and throws when this.logFile is still undefined or when the
\* file cannot be written.
logThrows(logFile) == logFile = None \/ ~fs.logWritable

DefaultMaxHistoryRuns == 50
DefaultFlakyThreshold == Dbl(107374182, 26843546, 55)

\* The reporter options the tracker reads; None is an option not passed.
NoReporterOptions == [maxHistoryRuns |-> None, flakyThreshold |-> None]

\* The tracker initializeFlakyTracker returns, or threw when the log call
\* of its catch block throws.
initializeFlakyTracker(o, logFile) ==
    LET maxHistoryRuns ==
            IF o.maxHistoryRuns = None \/ o.maxHistoryRuns[1] = 0
            THEN DefaultMaxHistoryRuns ELSE o.maxHistoryRuns[1]
        flakyThreshold ==
            IF o.flakyThreshold = None \/ o.flakyThreshold[1].hi = 0
            THEN DefaultFlakyThreshold ELSE o.flakyThreshold[1]
        file == fs.historyFile
        caught == file.state \in {"unreadable", "invalid"}
    IN  [threw |-> caught /\ logThrows(logFile),
         tracker |->
            [maxHistoryRuns |-> maxHistoryRuns,
             flakyThreshold |-> flakyThreshold,
             history |-> IF file.state = "ok" THEN file.data ELSE <<>>,
             currentRun |-> [timestamp |-> now, tests |-> <<>>]]]

\* Length of the trailing window analyzeFlakyTests looks at, and the
\* number of runs below which it does not look at an identity.
FlakyWindow == 20
MinRuns == 3

\* runs.slice(start): from the index start, counted from the end when
\* start is negative.
SliceFrom(runs, start) ==
    LET from == IF start < 0
                THEN (IF Len(runs) + start < 0 THEN 0 ELSE Len(runs) + start)
                ELSE (IF start > Len(runs) THEN Len(runs) ELSE start)
    IN  SubSeq(runs, from + 1, Len(runs))

HasStatus(runs, status) == \E i \in DOMAIN runs : runs[i].status = status
WithStatus(runs, status) == SelectSeq(runs, LAMBDA r : r.status = status)

\* Mutant: the whole run list is analysed, not its last 20 runs.
FlakyAnalysisWholeHistory(testName, testHistory, flakyThreshold) ==
    IF Len(testHistory.runs) < MinRuns THEN None
    ELSE LET recentRuns == testHistory.runs
             failed == WithStatus(recentRuns, "failed")
             failures == Len(failed)
             total == Len(recentRuns)
             failureRate == FlDiv(failures, total)
             hasPassesAndFailures ==
                HasStatus(recentRuns, "passed") /\ HasStatus(recentRuns, "failed")
         IN  IF hasPassesAndFailures /\ FlGe(failureRate, flakyThreshold)
             THEN Some([testName |-> testName,
                        failureRate |-> MathRound(FlMul(failureRate, 100)),
                        totalRuns |-> total,
                        failures |-> failures,
                        passes |-> total - failures,
                        lastFailure |-> Some(failed[Len(failed)].timestamp),
                        averageDuration |->
                            MathRound(FlDiv(
                                Sum([i \in DOMAIN recentRuns |->
                                        recentRuns[i].duration]), total))])
             ELSE None

\* Mutant: the failure rate has to be above the threshold, not on it.
FlakyAnalysisAbove(testName, testHistory, flakyThreshold) ==
    IF Len(testHistory.runs) < MinRuns THEN None
    ELSE LET recentRuns == SliceFrom(testHistory.runs, -FlakyWindow)
             failed == WithStatus(recentRuns, "failed")
             failures == Len(failed)
             total == Len(recentRuns)
             failureRate == FlDiv(failures, total)
             hasPassesAndFailures ==
                HasStatus(recentRuns, "passed") /\ HasStatus(recentRuns, "failed")
             above ==
                CmpN(ShiftN(failureRate.m, flakyThreshold.e),
                     ShiftN(BigOf(flakyThreshold.hi, flakyThreshold.lo),
                            failureRate.k)) > 0
         IN  IF hasPassesAndFailures /\ above
             THEN Some([testName |-> testName,
                        failureRate |-> MathRound(FlMul(failureRate, 100)),
                        totalRuns |-> total,
                        failures |-> failures,
                        passes |-> total - failures,
                        lastFailure |-> Some(failed[Len(failed)].timestamp),
                        averageDuration |->
                            MathRound(FlDiv(
                                Sum([i \in DOMAIN recentRuns |->
                                        recentRuns[i].duration]), total))])
             ELSE None

\* The analysis of one identity, None when it is not pushed.
FlakyAnalysis(testName, testHistory, flakyThreshold) ==
    IF Len(testHistory.runs) < MinRuns THEN None
    ELSE LET recentRuns == SliceFrom(testHistory.runs, -FlakyWindow)
             failed == WithStatus(recentRuns, "failed")
             failures == Len(failed)
             total == Len(recentRuns)
             failureRate == FlDiv(failures, total)
             hasPassesAndFailures ==
                HasStatus(recentRuns, "passed") /\ HasStatus(recentRuns, "failed")
         IN  IF hasPassesAndFailures /\ FlGe(failureRate, flakyThreshold)
             THEN Some([testName |-> testName,
                        failureRate |-> MathRound(FlMul(failureRate, 100)),
                        totalRuns |-> total,
                        failures |-> failures,
                        passes |-> total - failures,
                        lastFailure |-> Some(failed[Len(failed)].timestamp),
                        averageDuration |->
                            MathRound(FlDiv(
                                Sum([i \in DOMAIN recentRuns |->
                                        recentRuns[i].duration]), total))])
             ELSE None

RECURSIVE InsertByRate(_, _)
\* a put into s, sorted by descending failureRate, after its equals.
InsertByRate(s, a) ==
    IF s = <<>> THEN <<a>>
    ELSE IF Head(s).failureRate >= a.failureRate
         THEN <<Head(s)>> \o InsertByRate(Tail(s), a)
         ELSE <<a>> \o s

RECURSIVE InsertByRateAscending(_, _)
\* a put into s, sorted by ascending failureRate (for the mutant below).
InsertByRateAscending(s, a) ==
    IF s = <<>> THEN <<a>>
    ELSE IF Head(s).failureRate <= a.failureRate
         THEN <<Head(s)>> \o InsertByRateAscending(Tail(s), a)
         ELSE <<a>> \o s

RECURSIVE SortByRateAscending(_)
\* Mutant: the comparison is a.failureRate - b.failureRate.
SortByRateAscending(s) ==
    IF s = <<>> THEN <<>>
    ELSE InsertByRateAscending(SortByRateAscending(SubSeq(s, 1, Len(s) - 1)),
                               s[Len(s)])

RECURSIVE SortByRate(_)
\* flakyTests.sort((a, b) => b.failureRate - a.failureRate), a stable sort.
SortByRate(s) ==
    IF s = <<>> THEN <<>>
    ELSE InsertByRate(SortByRate(SubSeq(s, 1, Len(s) - 1)), s[Len(s)])

analyzeFlakyTests(tracker) ==
    LET history == tracker.history
        flakyTests ==
            Flatten([i \in DOMAIN history |->
                        FlakyAnalysis(history[i].key, history[i].val,
                                      tracker.flakyThreshold)])
    IN  SortByRate(flakyTests)

\* The name the constructor gives this.logFile.
LogFileName == "reports/test-report.log"

\* new CustomReporter(globalConfig, o): initializeFlakyTracker runs twice,
\* the first time before this.logFile is assigned, and the constructor ends
\* with calls of this.log.  A constructor that throws leaves no reporter.
CustomReporter(o) ==
    LET first == initializeFlakyTracker(o, None)
        second == initializeFlakyTracker(o, Some(LogFileName))
        threw == first.threw \/ second.threw \/ logThrows(Some(LogFileName))
    IN  /\ flakyTracker' = IF threw THEN None ELSE Some(second.tracker)
        /\ ret' = IF threw THEN Thrown("CustomReporter", <<o>>)
                  ELSE Returned("CustomReporter", <<o>>, None, None)
        /\ UNCHANGED <<options, testMetrics, currentTest, now, fs, hooks,
                       cache, currentLeakTestId>>

\* The entry recordTest stores.
TestResult(status, duration, retries) ==
    [status |-> status, duration |-> duration, retries |-> retries,
     timestamp |-> now]

\* Mutant: the first result recorded for an identity is kept.
recordTestFirstWins(testFullName, status, duration, retries) ==
    /\ flakyTracker # None
    /\ flakyTracker' =
          Some([flakyTracker[1] EXCEPT !.currentRun.tests =
                   IF MapHas(@, testFullName) THEN @
                   ELSE MapSet(@, testFullName,
                               TestResult(status, duration, retries))])
    /\ ret' = Returned("recordTest",
                       <<testFullName, status, duration, retries>>, None, None)
    /\ UNCHANGED <<options, testMetrics, currentTest, now, fs, hooks, cache,
                   currentLeakTestId>>

recordTest(testFullName, status, duration, retries) ==
    /\ flakyTracker # None
    /\ flakyTracker' =
          Some([flakyTracker[1] EXCEPT !.currentRun.tests =
                   MapSet(@, testFullName,
                          TestResult(status, duration, retries))])
    /\ ret' = Returned("recordTest",
                       <<testFullName, status, duration, retries>>, None, None)
    /\ UNCHANGED <<options, testMetrics, currentTest, now, fs, hooks, cache,
                   currentLeakTestId>>

\* Mutant: the last failure is popped off the run list of the history.
AnalyzeFlakyTestsPopping ==
    /\ flakyTracker # None
    /\ ret' = Returned("analyzeFlakyTests", <<>>, None,
                       Some(analyzeFlakyTests(flakyTracker[1])))
    /\ flakyTracker' =
          Some([flakyTracker[1] EXCEPT !.history =
                   [i \in DOMAIN @ |->
                       IF FlakyAnalysis(@[i].key, @[i].val,
                                        flakyTracker[1].flakyThreshold) = None
                       THEN @[i]
                       ELSE [@[i] EXCEPT !.val.runs =
                                SubSeq(@, 1, Len(@) - 1)]]])
    /\ UNCHANGED <<options, testMetrics, currentTest, now, fs, hooks, cache,
                   currentLeakTestId>>

AnalyzeFlakyTests ==
    /\ flakyTracker # None
    /\ ret' = Returned("analyzeFlakyTests", <<>>, None,
                       Some(analyzeFlakyTests(flakyTracker[1])))
    /\ UNCHANGED <<options, testMetrics, currentTest, now, flakyTracker, fs,
                   hooks, cache, currentLeakTestId>>

RECURSIVE SavedHistoryOldest(_, _, _)
\* Mutant: the run list is cut to its first maxHistoryRuns entries.
SavedHistoryOldest(history, tests, maxHistoryRuns) ==
    IF tests = <<>> THEN history
    ELSE LET testName == Head(tests).key
             testResult == Head(tests).val
             held == IF MapHas(history, testName)
                     THEN MapGet(history, testName).runs ELSE <<>>
             pushed == Append(held,
                              [timestamp |-> testResult.timestamp,
                               status |-> testResult.status,
                               duration |-> testResult.duration,
                               retries |-> testResult.retries])
             runs == IF Len(pushed) > maxHistoryRuns
                     THEN SubSeq(pushed, 1, maxHistoryRuns) ELSE pushed
         IN  SavedHistoryOldest(MapSet(history, testName, [runs |-> runs]),
                                Tail(tests), maxHistoryRuns)

RECURSIVE SavedHistory(_, _, _)
\* The history after the loop of saveHistory over the entries tests of the
\* current run.
SavedHistory(history, tests, maxHistoryRuns) ==
    IF tests = <<>> THEN history
    ELSE LET testName == Head(tests).key
             testResult == Head(tests).val
             held == IF MapHas(history, testName)
                     THEN MapGet(history, testName).runs ELSE <<>>
             pushed == Append(held,
                              [timestamp |-> testResult.timestamp,
                               status |-> testResult.status,
                               duration |-> testResult.duration,
                               retries |-> testResult.retries])
             runs == IF Len(pushed) > maxHistoryRuns
                     THEN SliceFrom(pushed, -maxHistoryRuns) ELSE pushed
         IN  SavedHistory(MapSet(history, testName, [runs |-> runs]),
                          Tail(tests), maxHistoryRuns)

\* saveHistory without the try around the write.
saveHistoryUncaught ==
    /\ flakyTracker # None
    /\ LET tracker == flakyTracker[1]
           history == SavedHistory(tracker.history, tracker.currentRun.tests,
                                   tracker.maxHistoryRuns)
       IN  /\ flakyTracker' = Some([tracker EXCEPT !.history = history])
           /\ fs' = IF fs.historyWritable
                    THEN [fs EXCEPT !.historyFile = HistoryFile("ok", history)]
                    ELSE fs
           /\ ret' = IF ~fs.historyWritable
                     THEN Thrown("saveHistory", <<>>)
                     ELSE Returned("saveHistory", <<>>, None, None)
    /\ UNCHANGED <<options, testMetrics, currentTest, now, hooks, cache,
                   currentLeakTestId>>
\* saveHistory: the loop, then the write of the whole history; a write that
\* fails is caught and logged.
saveHistory ==
    /\ flakyTracker # None
    /\ LET tracker == flakyTracker[1]
           history == SavedHistory(tracker.history, tracker.currentRun.tests,
                                   tracker.maxHistoryRuns)
       IN  /\ flakyTracker' = Some([tracker EXCEPT !.history = history])
           /\ fs' = IF fs.historyWritable
                    THEN [fs EXCEPT !.historyFile = HistoryFile("ok", history)]
                    ELSE fs
           /\ ret' = IF ~fs.historyWritable /\ logThrows(Some(LogFileName))
                     THEN Thrown("saveHistory", <<>>)
                     ELSE Returned("saveHistory", <<>>, None, None)
    /\ UNCHANGED <<options, testMetrics, currentTest, now, hooks, cache,
                   currentLeakTestId>>

\* What onRunComplete has in hand once it has made its calls: the list
\* analyzeFlakyTests returned and the summary of the leak detector.
RunReport(flakyTests, leakSummary) ==
    [flakyTests |-> flakyTests, leakSummary |-> leakSummary]

\* onRunComplete with the analysis made before the history is saved.
onRunCompleteAnalyzeFirst ==
    /\ flakyTracker # None
    /\ LET tracker == flakyTracker[1]
           history == SavedHistory(tracker.history, tracker.currentRun.tests,
                                   tracker.maxHistoryRuns)
           saved == [tracker EXCEPT !.history = history]
           threw == logThrows(Some(LogFileName))
       IN  /\ flakyTracker' = IF threw THEN flakyTracker ELSE Some(saved)
           /\ fs' = IF ~threw /\ fs.historyWritable
                    THEN [fs EXCEPT !.historyFile = HistoryFile("ok", history)]
                    ELSE fs
           /\ ret' = IF threw THEN Thrown("onRunComplete", <<>>)
                     ELSE Returned("onRunComplete", <<>>, None,
                                   Some(RunReport(analyzeFlakyTests(tracker),
                                                  getSummary(testMetrics))))
    /\ UNCHANGED <<options, testMetrics, currentTest, now, hooks, cache,
                   currentLeakTestId>>
\* onRunComplete: the totals are logged, then saveHistory is called, then
\* analyzeFlakyTests on the tracker as saveHistory left it, then getSummary
\* of the leak detector, each logged in turn.  Every log call appends to
\* the log file, so the handler throws at its first line when the log
\* cannot be written.
onRunComplete ==
    /\ flakyTracker # None
    /\ LET tracker == flakyTracker[1]
           history == SavedHistory(tracker.history, tracker.currentRun.tests,
                                   tracker.maxHistoryRuns)
           saved == [tracker EXCEPT !.history = history]
           threw == logThrows(Some(LogFileName))
       IN  /\ flakyTracker' = IF threw THEN flakyTracker ELSE Some(saved)
           /\ fs' = IF ~threw /\ fs.historyWritable
                    THEN [fs EXCEPT !.historyFile = HistoryFile("ok", history)]
                    ELSE fs
           /\ ret' = IF threw THEN Thrown("onRunComplete", <<>>)
                     ELSE Returned("onRunComplete", <<>>, None,
                                   Some(RunReport(analyzeFlakyTests(saved),
                                                  getSummary(testMetrics))))
    /\ UNCHANGED <<options, testMetrics, currentTest, now, hooks, cache,
                   currentLeakTestId>>

(***************************************************************************)
(* The reporter's handlers of the test case events.  The reporter lives in *)
(* the process that runs Jest; it holds one LeakDetector and the one field *)
(* this.currentLeakTestId.  The log file can be written while a reporter   *)
(* exists, and then the log calls of the handlers change nothing here.     *)
(***************************************************************************)
\* onTestCaseStart: the id startTest returns is kept in currentLeakTestId;
\* a throw of startTest leaves the field as it was.
onTestCaseStart(fullName, testFile, env) ==
    /\ flakyTracker # None
    /\ startTest(fullName, testFile, env)
    /\ currentLeakTestId' = IF ret'.threw THEN currentLeakTestId ELSE ret'.val
    /\ UNCHANGED hooks

\* What finishTest(testId, status) leaves behind, as values: the Map, the
\* files, currentTest and the record of the call.
Finished(testId, status, env) ==
    IF ~MapHas(testMetrics, testId)
    THEN [testMetrics |-> testMetrics, fs |-> fs, currentTest |-> currentTest,
          ret |-> Returned("finishTest", <<testId, status>>, None, None)]
    ELSE IF captureTimerStateThrows(env)
    THEN [testMetrics |->
             MapSet(testMetrics, testId,
                    [MapGet(testMetrics, testId) EXCEPT
                        !.endTime = Some(now),
                        !.finalMemory = Some(getMemoryUsage(env)),
                        !.finalGlobals = Some(captureGlobalState(env))]),
          fs |-> fs, currentTest |-> currentTest,
          ret |-> Thrown("finishTest", <<testId, status>>)]
    ELSE LET metrics == Finalized(MapGet(testMetrics, testId), status, env,
                                  options)
         IN  [testMetrics |-> MapSet(testMetrics, testId, metrics),
              fs |-> IF /\ options.generateHeapSnapshots
                        /\ Len(metrics.leaksDetected) > 0
                     THEN generateHeapSnapshot(fs, testId) ELSE fs,
              currentTest |-> None,
              ret |-> Returned("finishTest", <<testId, status>>, Some(env),
                               Some(metrics))]

\* onTestCaseResult: the result is recorded under file > fullName for the
\* flaky tracker; then, if currentLeakTestId is set, the record of THAT id
\* is finished with the status of this result and the field is cleared (a
\* throw of finishTest leaves it set).
onTestCaseResult(fullName, testFile, status, duration, retries, env) ==
    LET testFullName == testFile \o " > " \o fullName
    IN  /\ flakyTracker # None
        /\ IF logThrows(Some(LogFileName))
           THEN /\ ret' = Thrown("onTestCaseResult",
                                 <<fullName, testFile, status>>)
                /\ UNCHANGED <<testMetrics, currentTest, flakyTracker, fs,
                               currentLeakTestId>>
           ELSE /\ flakyTracker' =
                      Some([flakyTracker[1] EXCEPT !.currentRun.tests =
                               MapSet(@, testFullName,
                                      TestResult(status, duration, retries))])
                /\ IF currentLeakTestId = None
                   THEN /\ ret' = Returned("recordTest",
                                           <<testFullName, status, duration,
                                             retries>>, None, None)
                        /\ UNCHANGED <<testMetrics, currentTest, fs,
                                       currentLeakTestId>>
                   ELSE LET done == Finished(currentLeakTestId[1], status, env)
                        IN  /\ testMetrics' = done.testMetrics
                            /\ fs' = done.fs
                            /\ currentTest' = done.currentTest
                            /\ ret' = done.ret
                            /\ currentLeakTestId' =
                                  IF done.ret.threw THEN currentLeakTestId
                                  ELSE None
        /\ UNCHANGED <<options, now, hooks, cache>>

(***************************************************************************)
(* The setup file jest.setup.memory.ts: one LeakDetector driven from the   *)
(* hooks of the test file that loaded it.  The methods of the detector     *)
(* leave hooks to their caller.                                            *)
(***************************************************************************)
\* Before the first hook: currentTestId is null and testSummary is empty.
\* testSummary maps an id to the record finishTest returned, which is the
\* record testMetrics holds; it is kept as the ids in insertion order.
\* last is the hook that ran last.
NoHooks == [currentTestId |-> None, testSummary |-> <<>>, last |-> None]

\* The options the setup file passes (the two environment variables unset).
TwentyFiveMB == IntDbl(25)
FifteenHundredths == Dbl(80530636, 53687091, 55)
SetupOptions ==
    [NoOptions EXCEPT
        !.memoryThresholdMB = Some(TwentyFiveMB),
        !.heapGrowthThreshold = Some(FifteenHundredths),
        !.trackEventListeners = Some(TRUE),
        !.trackTimers = Some(TRUE),
        !.trackGlobals = Some(TRUE),
        !.excludePatterns = Some(<<"integration.*large.*dataset",
                                   "performance.*benchmark",
                                   ".*stress.*test">>)]

\* Text in lower case, as the flag 'i' compares it.
ToLowerChar(c) ==
    IF \E i \in 1..26 : SubSeq(UpperCase, i, i) = c
    THEN LET i == CHOOSE j \in 1..26 : SubSeq(UpperCase, j, j) = c
         IN  SubSeq(LowerCase, i, i)
    ELSE c
RECURSIVE ToLower(_)
ToLower(text) ==
    IF Len(text) = 0 THEN ""
    ELSE ToLowerChar(SubSeq(text, 1, 1)) \o ToLower(SubSeq(text, 2, Len(text)))

\* The least position from `from` on at which text holds literal, 0 if none.
RECURSIVE IndexOf(_, _, _)
IndexOf(text, literal, from) ==
    IF from + Len(literal) - 1 > Len(text) THEN 0
    ELSE IF SubSeq(text, from, from + Len(literal) - 1) = literal THEN from
    ELSE IndexOf(text, literal, from + 1)

\* The literal pieces of a pattern made of literal text and ".*".
RECURSIVE Pieces(_, _)
Pieces(pattern, piece) ==
    IF Len(pattern) = 0 THEN <<piece>>
    ELSE IF Len(pattern) >= 2 /\ SubSeq(pattern, 1, 2) = ".*"
    THEN <<piece>> \o Pieces(SubSeq(pattern, 3, Len(pattern)), "")
    ELSE Pieces(SubSeq(pattern, 2, Len(pattern)),
                piece \o SubSeq(pattern, 1, 1))

\* text holds the pieces in their order, without overlap, from `from` on.
RECURSIVE HoldsPieces(_, _, _)
HoldsPieces(text, pieces, from) ==
    IF pieces = <<>> THEN TRUE
    ELSE LET at == IndexOf(text, Head(pieces), from)
         IN  /\ at # 0
             /\ HoldsPieces(text, Tail(pieces), at + Len(Head(pieces)))

\* new RegExp(pattern, 'i').test(text): the pattern is not anchored, and
\* ".*" stands for any text without a line break.
RegExpTest(pattern, text) ==
    HoldsPieces(ToLower(text), Pieces(ToLower(pattern), ""), 1)

shouldSkip(testName, testFile) ==
    \E i \in DOMAIN options.excludePatterns :
        \/ RegExpTest(options.excludePatterns[i], testName)
        \/ RegExpTest(options.excludePatterns[i], testFile)

\* Mutant: only the name of the test is matched against the patterns.
beforeEachByName(testName, testFile, env) ==
    LET hook == Some([hook |-> "beforeEach", testName |-> testName,
                      testFile |-> testFile])
        skip == \E i \in DOMAIN options.excludePatterns :
                    RegExpTest(options.excludePatterns[i], testName)
    IN  IF skip
        THEN /\ hooks' = [hooks EXCEPT !.last = hook]
             /\ UNCHANGED <<options, testMetrics, currentTest, now, ret,
                            flakyTracker, fs, cache>>
        ELSE /\ startTest(testName, testFile, env)
             /\ hooks' = [hooks EXCEPT
                             !.currentTestId = IF ret'.threw THEN @ ELSE ret'.val,
                             !.last = hook]
\* beforeEach: the test is left alone when a pattern matches its name or
\* its file; otherwise startTest is called and its id kept.
beforeEach(testName, testFile, env) ==
    LET hook == Some([hook |-> "beforeEach", testName |-> testName,
                      testFile |-> testFile])
    IN  IF shouldSkip(testName, testFile)
        THEN /\ hooks' = [hooks EXCEPT !.last = hook]
             /\ UNCHANGED <<options, testMetrics, currentTest, now, ret,
                            flakyTracker, fs, cache>>
        ELSE /\ startTest(testName, testFile, env)
             /\ hooks' = [hooks EXCEPT
                             !.currentTestId = IF ret'.threw THEN @ ELSE ret'.val,
                             !.last = hook]

\* afterEach: nothing without an id; otherwise finishTest is called with
\* the status taken from the assertion counts, the record it returned is
\* put into testSummary and the id is dropped.
afterEach(assertionCalls, expectedAssertionsNumber, env) ==
    LET hook == Some([hook |-> "afterEach"])
        status == IF Some(assertionCalls) = expectedAssertionsNumber
                  THEN "passed" ELSE "failed"
    IN  IF hooks.currentTestId = None
        THEN /\ hooks' = [hooks EXCEPT !.last = hook]
             /\ UNCHANGED <<options, testMetrics, currentTest, now, ret,
                            flakyTracker, fs, cache>>
        ELSE LET id == hooks.currentTestId[1]
             IN  /\ finishTest(id, status, env)
                 /\ hooks' =
                       IF ret'.threw THEN [hooks EXCEPT !.last = hook]
                       ELSE [currentTestId |-> None,
                             testSummary |->
                                IF ret'.val = None
                                   \/ \E i \in DOMAIN hooks.testSummary :
                                         hooks.testSummary[i] = id
                                THEN hooks.testSummary
                                ELSE Append(hooks.testSummary, id),
                             last |-> hook]

\* afterAll: the summary is taken and printed, then the detector is
\* cleaned up.
afterAll ==
    /\ cleanup
    /\ hooks' = [hooks EXCEPT
                    !.last = Some([hook |-> "afterAll",
                                   summary |-> getSummary(testMetrics)])]

(***************************************************************************)
(* async-utils.ts: retryOperation.  The operation is given by what its     *)
(* calls do in turn: outcomes[k] is a value the k-th call resolves to or   *)
(* an Error it rejects with.  What is returned tells how the promise       *)
(* settled, how often the operation was called and the delays waited.      *)
(***************************************************************************)
Resolves(value) == [ok |-> TRUE, value |-> value]
Rejects(message) == [ok |-> FALSE, error |-> [message |-> message]]

Settled(how, with, calls, delays) ==
    [settled |-> how, with |-> with, calls |-> calls, delays |-> delays]

RECURSIVE RetryLoopFlatDelay(_, _, _, _, _, _)
\* Mutant: every wait is delayMs long.
RetryLoopFlatDelay(outcomes, maxRetries, delayMs, attempt, delays, lastError) ==
    IF attempt > maxRetries
    THEN Settled("rejected", lastError, attempt - 1, delays)
    ELSE IF outcomes[attempt].ok
    THEN Settled("resolved", Some(outcomes[attempt].value), attempt, delays)
    ELSE IF attempt = maxRetries
    THEN Settled("rejected",
                 Some([message |->
                    "Operation failed after " \o ToString(maxRetries)
                    \o " attempts: " \o outcomes[attempt].error.message]),
                 attempt, delays)
    ELSE RetryLoopFlatDelay(outcomes, maxRetries, delayMs, attempt + 1,
                            Append(delays, delayMs),
                            Some(outcomes[attempt].error))
RECURSIVE RetryLoop(_, _, _, _, _, _)
\* The for loop from `attempt` on; after the loop lastError is thrown as it
\* is, undefined when the loop never ran.
RetryLoop(outcomes, maxRetries, delayMs, attempt, delays, lastError) ==
    IF attempt > maxRetries
    THEN Settled("rejected", lastError, attempt - 1, delays)
    ELSE IF outcomes[attempt].ok
    THEN Settled("resolved", Some(outcomes[attempt].value), attempt, delays)
    ELSE IF attempt = maxRetries
    THEN Settled("rejected",
                 Some([message |->
                    "Operation failed after " \o ToString(maxRetries)
                    \o " attempts: " \o outcomes[attempt].error.message]),
                 attempt, delays)
    ELSE RetryLoop(outcomes, maxRetries, delayMs, attempt + 1,
                   Append(delays, delayMs * attempt),
                   Some(outcomes[attempt].error))

retryOperation(outcomes, maxRetries, delayMs) ==
    /\ ret' = Returned("retryOperation", <<outcomes, maxRetries, delayMs>>,
                       None,
                       Some(RetryLoop(outcomes, maxRetries, delayMs, 1, <<>>,
                                      None)))
    /\ UNCHANGED <<options, testMetrics, currentTest, now, flakyTracker, fs,
                   hooks, cache, currentLeakTestId>>

(***************************************************************************)
(* async-utils.ts: Cache.  cache[1].storage is the Map this.storage in     *)
(* insertion order, each value an item [value, expiry]; undefined is None. *)
(***************************************************************************)
DefaultTtlMs == 300000
\* new Cache(defaultTtlMs), the argument None when it is left out.
Cache(defaultTtlMs) ==
    [defaultTtl |-> IF defaultTtlMs = None THEN DefaultTtlMs
                    ELSE defaultTtlMs[1],
     storage |-> <<>>]

MapDelete(m, k) == SelectSeq(m, LAMBDA e : e.key # k)

set(key, value, ttlMs) ==
    /\ cache # None
    /\ LET expiry == now + (IF ttlMs = None THEN cache[1].defaultTtl
                            ELSE ttlMs[1])
       IN  cache' = Some([cache[1] EXCEPT !.storage =
                            MapSet(@, key, [value |-> value,
                                            expiry |-> expiry])])
    /\ ret' = Returned("set", <<key, value, ttlMs>>, None, None)
    /\ UNCHANGED <<options, testMetrics, currentTest, now, flakyTracker, fs,
                   hooks, currentLeakTestId>>

\* Mutant: an item is expired from its expiry time on.
GotUntilExpiry(c, key) ==
    IF ~MapHas(c.storage, key) THEN [value |-> None, storage |-> c.storage]
    ELSE IF now >= MapGet(c.storage, key).expiry
    THEN [value |-> None, storage |-> MapDelete(c.storage, key)]
    ELSE [value |-> Some(MapGet(c.storage, key).value),
          storage |-> c.storage]
\* What get(key) returns, and the storage it leaves.
Got(c, key) ==
    IF ~MapHas(c.storage, key) THEN [value |-> None, storage |-> c.storage]
    ELSE IF now > MapGet(c.storage, key).expiry
    THEN [value |-> None, storage |-> MapDelete(c.storage, key)]
    ELSE [value |-> Some(MapGet(c.storage, key).value),
          storage |-> c.storage]

get(key) ==
    /\ cache # None
    /\ cache' = Some([cache[1] EXCEPT !.storage = Got(cache[1], key).storage])
    /\ ret' = Returned("get", <<key>>, None, Got(cache[1], key).value)
    /\ UNCHANGED <<options, testMetrics, currentTest, now, flakyTracker, fs,
                   hooks, currentLeakTestId>>

has(key) ==
    /\ cache # None
    /\ cache' = Some([cache[1] EXCEPT !.storage = Got(cache[1], key).storage])
    /\ ret' = Returned("has", <<key>>, None,
                       Some(Got(cache[1], key).value # None))
    /\ UNCHANGED <<options, testMetrics, currentTest, now, flakyTracker, fs,
                   hooks, currentLeakTestId>>

delete(key) ==
    /\ cache # None
    /\ cache' = Some([cache[1] EXCEPT !.storage = MapDelete(@, key)])
    /\ ret' = Returned("delete", <<key>>, None,
                       Some(MapHas(cache[1].storage, key)))
    /\ UNCHANGED <<options, testMetrics, currentTest, now, flakyTracker, fs,
                   hooks, currentLeakTestId>>

clear ==
    /\ cache # None
    /\ cache' = Some([cache[1] EXCEPT !.storage = <<>>])
    /\ ret' = Returned("clear", <<>>, None, None)
    /\ UNCHANGED <<options, testMetrics, currentTest, now, flakyTracker, fs,
                   hooks, currentLeakTestId>>

\* size: the expired items are deleted first.
size ==
    /\ cache # None
    /\ LET kept == SelectSeq(cache[1].storage,
                             LAMBDA e : ~(now > e.val.expiry))
       IN  /\ cache' = Some([cache[1] EXCEPT !.storage = kept])
           /\ ret' = Returned("size", <<>>, None, Some(Len(kept)))
    /\ UNCHANGED <<options, testMetrics, currentTest, now, flakyTracker, fs,
                   hooks, currentLeakTestId>>

\* Time passes between the calls of the cache.
CacheTick ==
    /\ now < MaxCacheClock
    /\ now' = now + 1
    /\ UNCHANGED <<options, testMetrics, currentTest, ret, flakyTracker, fs,
                   hooks, cache, currentLeakTestId>>

(***************************************************************************)
(* Specifications.  The calls and what the process looks like at each call *)
(* are drawn from the sets a specification names.                          *)
(***************************************************************************)
TestId(testName, testFile) == testFile \o " > " \o testName

InitOn(Passed) ==
    /\ options \in {constructor(o) : o \in Passed}
    /\ testMetrics = <<>>
    /\ currentTest = None
    /\ now = 0
    /\ ret = [op |-> "constructor", args |-> <<>>, env |-> None, time |-> 0,
              val |-> None, threw |-> FALSE]
    /\ flakyTracker = None
    /\ fs = NoFiles
    /\ hooks = NoHooks
    /\ currentLeakTestId = None
    /\ cache = None

\* The calls of a run.  A record is finished once, as the afterEach hook
\* does; with Again, a finished record is finished anew while it holds fewer
\* than MaxReports reports.
NextOn(Names, Files, Ids, Statuses, Envs, Again) ==
    \/ \E n \in Names, f \in Files, env \in Envs :
          startTest(n, f, env) /\ UNCHANGED <<hooks, currentLeakTestId>>
    \/ \E id \in Ids, st \in Statuses, env \in Envs :
          /\ MapHas(testMetrics, id) =>
                IF Again
                THEN Len(MapGet(testMetrics, id).leaksDetected)
                     + Len(MapGet(testMetrics, id).warnings) < MaxReports
                ELSE MapGet(testMetrics, id).status = None
          /\ finishTest(id, st, env)
          /\ UNCHANGED <<hooks, currentLeakTestId>>
    \/ GetSummary /\ UNCHANGED <<hooks, currentLeakTestId>>
    \/ cleanup /\ UNCHANGED <<hooks, currentLeakTestId>>
    \/ Tick

\* A test's heap at rest, and after it allocated 60 MB (more than the
\* default 50 MB threshold).
HeapAtRest == IntNum(50000000)
HeapGrown == IntNum(50000000 + 60 * MB)

Quiet ==
    [heapUsed |-> HeapAtRest, globalNames |-> <<"a", "b">>,
     handles |-> 2, requests |-> 0, listeners |-> 3]
Leaky ==
    [heapUsed |-> HeapGrown, globalNames |-> <<"a", "b", "c", "d">>,
     handles |-> 3, requests |-> 1, listeners |-> 5]

(* The life cycle of records: two tests of one file, an identifier nobody  *)
(* started, and a quiet and a leaky process.                               *)
TestNames == {"t1", "t2"}
TestFiles == {"f.ts"}
TestIds == {TestId(n, f) : n \in TestNames, f \in TestFiles} \cup {"unknown"}
TestStatuses == {"passed", "failed"}

Init == InitOn({NoOptions})
Next ==
    NextOn(TestNames, TestFiles, TestIds, TestStatuses, {Quiet, Leaky}, TRUE)
Spec == Init /\ [][Next]_vars

(* The memory check: one test, heaps on both sides of the thresholds, and  *)
(* the degenerate heaps 0 and below.                                       *)
\* 0.0001 as a double.
OneTenThousandth == Dbl(109951162, 52183853, 66)
\* 100 MB + 0.01 MB: the double nearest to 104868085.76.
HundredMBAndOneHundredth == Num(104868085, 51002737)

HeapValues ==
    {IntNum(-2 * MB), IntNum(-MB), IntNum(0),
     HeapAtRest, IntNum(55000000),
     IntNum(50000000 + 50 * MB), IntNum(50000000 + 50 * MB + 1), HeapGrown,
     IntNum(100 * MB), HundredMBAndOneHundredth}

MemoryOptions ==
    {NoOptions,
     [NoOptions EXCEPT !.heapGrowthThreshold = Some(OneTenThousandth)],
     [NoOptions EXCEPT !.memoryThresholdMB = Some(IntDbl(1))]}

InitMemory == InitOn(MemoryOptions)
NextMemory ==
    NextOn({"t1"}, {"f.ts"}, {TestId("t1", "f.ts"), "unknown"}, {"passed"},
           {[Quiet EXCEPT !.heapUsed = h] : h \in HeapValues}, FALSE)
SpecMemory == InitMemory /\ [][NextMemory]_vars

(* The global check: one test; the global object holds some of the names   *)
(* a and b in either order, followed by a block of 0, 3 or MaxBulk names.  *)
Bulk(k) == [i \in 1..k |-> "g" \o ToString(i)]
GlobalStates ==
    {s \o Bulk(k) : s \in {<<>>, <<"a">>, <<"b">>, <<"a", "b">>, <<"b", "a">>},
                    k \in {0, 3, MaxBulk}}
    \cup {<<"a", "b", "c", "d">>}

InitGlobals == InitOn({NoOptions})
NextGlobals ==
    NextOn({"t1"}, {"f.ts"}, {TestId("t1", "f.ts"), "unknown"}, {"passed"},
           {[Quiet EXCEPT !.globalNames = g] : g \in GlobalStates}, FALSE)
SpecGlobals == InitGlobals /\ [][NextGlobals]_vars

(* The timer and listener checks: one test; the handles, the requests or   *)
(* the listeners take every count up to MaxCount.                          *)
CountEnvs ==
    {[Quiet EXCEPT !.handles = h, !.requests = r] :
        h \in 0..MaxCount, r \in {0}}
    \cup {[Quiet EXCEPT !.handles = 2, !.requests = MaxCount]}
    \cup {[Quiet EXCEPT !.listeners = l] : l \in 0..MaxCount}

InitCounts == InitOn({NoOptions})
NextCounts ==
    NextOn({"t1"}, {"f.ts"}, {TestId("t1", "f.ts"), "unknown"}, {"passed"},
           CountEnvs, FALSE)
SpecCounts == InitCounts /\ [][NextCounts]_vars

(* The tracking flags: one test, every choice of the three flags (absent,  *)
(* true or false), and a quiet and a leaky process.                        *)
FlagValues == {None, Some(TRUE), Some(FALSE)}
FlagOptions ==
    {[NoOptions EXCEPT !.trackGlobals = g, !.trackTimers = t,
                       !.trackEventListeners = l] :
        g \in FlagValues, t \in FlagValues, l \in FlagValues}

InitFlags == InitOn(FlagOptions)
NextFlags ==
    NextOn({"t1"}, {"f.ts"}, {TestId("t1", "f.ts"), "unknown"}, {"passed"},
           {Quiet, Leaky}, FALSE)
SpecFlags == InitFlags /\ [][NextFlags]_vars

(* Hosts: Node with all its functions, a host without the two functions   *)
(* that list handles and requests, one without listenerCount, and one      *)
(* without any of the three; each quiet and with a changed heap and        *)
(* globals.                                                                *)
Without(env, names) == [f \in DOMAIN env \ names |-> env[f]]
Hosts ==
    {Without(env, names) :
        env \in {Quiet, Leaky},
        names \in {{}, {"handles", "requests"}, {"listeners"},
                   {"handles", "requests", "listeners"}}}

(* Severities: a quiet process, one that grew a little in every respect   *)
(* (30% of heap, 2 globals, 2 timers, 2 listeners) and one that grew a lot *)
(* (60 MB, 6 globals, 7 timers, 11 listeners).                             *)
Growing == [Leaky EXCEPT !.heapUsed = IntNum(65000000)]
Flooded ==
    [heapUsed |-> HeapGrown,
     globalNames |-> <<"a", "b", "g1", "g2", "g3", "g4", "g5", "g6">>,
     handles |-> 6, requests |-> 3, listeners |-> 14]

InitSeverity == InitOn({NoOptions})
NextSeverity ==
    NextOn({"t1", "t2"}, {"f.ts"}, {TestId("t1", "f.ts"), TestId("t2", "f.ts")},
           {"passed"}, {Quiet, Growing, Flooded}, FALSE)
SpecSeverity == InitSeverity /\ [][NextSeverity]_vars

(* The hooks: the tests of one file at a time, in the order Jest runs     *)
(* their hooks: beforeEach, afterEach, ..., afterAll.  Names and files     *)
(* that the patterns match, in either case, and that they do not.          *)
HookNames ==
    {"t1", "a Stress-Test", "test under stress",
     "performance Benchmark"}
HookFiles == {"f.ts", "stress/a.test.ts"}
LastHook == IF hooks.last = None THEN "none" ELSE hooks.last[1].hook

InitHooks == InitOn({SetupOptions})
NextHooks ==
    \/ \E n \in HookNames, f \in HookFiles, env \in {Quiet} :
          /\ LastHook \in {"none", "afterEach"}
          /\ Len(hooks.testSummary) < MaxTests
          /\ \A i \in DOMAIN testMetrics : testMetrics[i].val.testFile = f
          /\ beforeEach(n, f, env)
          /\ UNCHANGED currentLeakTestId
    \/ \E expected \in {None, Some(1)}, env \in {Quiet, Leaky} :
          /\ LastHook = "beforeEach"
          /\ afterEach(1, expected, env)
          /\ UNCHANGED currentLeakTestId
    \/ /\ LastHook = "afterEach"
       /\ afterAll
       /\ UNCHANGED currentLeakTestId
    \/ Tick
SpecHooks == InitHooks /\ [][NextHooks]_vars

(* retryOperation: operations whose first MaxAttempts calls resolve or     *)
(* reject in every order, every maxRetries from 0 to MaxAttempts, and      *)
(* three delays; one call in a behaviour.                                  *)
Outcomes == {Resolves("success"), Rejects("Fail 1"), Rejects("Fail 2")}
Operations == [1..MaxAttempts -> Outcomes]

InitRetry == InitOn({NoOptions})
NextRetry ==
    \E outcomes \in Operations, maxRetries \in 0..MaxAttempts,
       delayMs \in {0, 10, 1000} :
        /\ ret.op # "retryOperation"
        /\ retryOperation(outcomes, maxRetries, delayMs)
SpecRetry == InitRetry /\ [][NextRetry]_vars

(* The Cache: two keys, two values, a TTL of 0 or 1 or none, and a cache   *)
(* made with a default TTL of 1 or without one.                            *)
CacheKeys == {"key1", "key2"}
CacheValues == {"value1", "value2"}

InitCache ==
    /\ options = constructor(NoOptions)
    /\ testMetrics = <<>>
    /\ currentTest = None
    /\ now = 0
    /\ ret = [op |-> "Cache", args |-> <<>>, env |-> None, time |-> 0,
              val |-> None, threw |-> FALSE]
    /\ flakyTracker = None
    /\ fs = NoFiles
    /\ hooks = NoHooks
    /\ currentLeakTestId = None
    /\ cache \in {Some(Cache(d)) : d \in {None, Some(1)}}
NextCache ==
    \/ \E k \in CacheKeys, v \in CacheValues, t \in {None, Some(0), Some(1)} :
          set(k, v, t)
    \/ \E k \in CacheKeys : get(k)
    \/ \E k \in CacheKeys : has(k)
    \/ \E k \in CacheKeys : delete(k)
    \/ clear
    \/ size
    \/ CacheTick
SpecCache == InitCache /\ [][NextCache]_vars

(* finishTest called again for a finished record: one test, a quiet and a *)
(* leaky process, a record finished anew while it holds fewer than MaxHeld *)
(* reports.                                                                *)
InitRefinish == InitOn({NoOptions})
NextRefinish ==
    \/ \E env \in {Quiet, Leaky} :
          /\ startTest("t1", "f.ts", env)
          /\ UNCHANGED <<hooks, currentLeakTestId>>
    \/ \E st \in {"passed", "failed"}, env \in {Quiet, Leaky} :
          /\ MapHas(testMetrics, TestId("t1", "f.ts")) =>
                Len(MapGet(testMetrics, TestId("t1", "f.ts")).leaksDetected)
                + Len(MapGet(testMetrics, TestId("t1", "f.ts")).warnings)
                    < MaxHeld
          /\ finishTest(TestId("t1", "f.ts"), st, env)
          /\ UNCHANGED <<hooks, currentLeakTestId>>
    \/ GetSummary /\ UNCHANGED <<hooks, currentLeakTestId>>
    \/ cleanup /\ UNCHANGED <<hooks, currentLeakTestId>>
    \/ Tick
SpecRefinish == InitRefinish /\ [][NextRefinish]_vars

(* Heap snapshots: the option absent, on or off; snapshot files that can  *)
(* and that cannot be written; a quiet process, one with a warning only    *)
(* (the heap grew by 30%), and a leaky one.                                *)
Swollen == [Quiet EXCEPT !.heapUsed = IntNum(65000000)]
SnapshotOptions ==
    {[NoOptions EXCEPT !.generateHeapSnapshots = g] :
        g \in {None, Some(TRUE), Some(FALSE)}}

InitSnapshots ==
    /\ options \in {constructor(o) : o \in SnapshotOptions}
    /\ testMetrics = <<>>
    /\ currentTest = None
    /\ now = 0
    /\ ret = [op |-> "constructor", args |-> <<>>, env |-> None, time |-> 0,
              val |-> None, threw |-> FALSE]
    /\ flakyTracker = None
    /\ fs \in {[NoFiles EXCEPT !.snapshotsWritable = w] : w \in BOOLEAN}
    /\ hooks = NoHooks
    /\ currentLeakTestId = None
    /\ cache = None
NextSnapshots ==
    NextOn({"t1"}, {"f.ts"}, {TestId("t1", "f.ts"), "unknown"}, {"passed"},
           {Quiet, Swollen, Leaky}, FALSE)
SpecSnapshots == InitSnapshots /\ [][NextSnapshots]_vars

InitHosts == InitOn({NoOptions})
NextHosts ==
    NextOn({"t1"}, {"f.ts"}, {TestId("t1", "f.ts")}, {"passed"}, Hosts, FALSE)
SpecHosts == InitHosts /\ [][NextHosts]_vars

(***************************************************************************)
(* Specifications of the flaky tracker.  A behaviour is one run: it starts *)
(* with the files as the previous runs left them and no reporter.          *)
(***************************************************************************)
\* The run list of n runs that a previous run left: run i of n has the
\* timestamp i - n - 1 (all before time 0) and a duration of 0, 5, 10 or 15.
LoadedRuns(n, pattern) ==
    [i \in 1..n |->
        [timestamp |-> i - n - 1,
         status |->
            CASE pattern = "passed" -> "passed"
              [] pattern = "failed" -> "failed"
              [] pattern = "mixed" -> IF i % 2 = 1 THEN "passed" ELSE "failed"
              [] pattern = "oldestFailed" -> IF i = 1 THEN "failed" ELSE "passed"
              [] pattern = "oldestPassed" -> IF i = 1 THEN "passed" ELSE "failed"
              [] pattern = "latestFailed" -> IF i = n THEN "failed" ELSE "passed"
              [] pattern = "skipped" ->
                    IF i % 3 = 1 THEN "passed"
                    ELSE IF i % 3 = 2 THEN "skipped" ELSE "failed",
         duration |-> 5 * (i % 4),
         retries |-> 0]]

Patterns ==
    {"passed", "failed", "mixed", "oldestFailed", "oldestPassed",
     "latestFailed", "skipped"}

\* The history object with the run lists r1 of t1 and r2 of t2; an identity
\* with an empty run list has no entry.
HistoryOf(r1, r2) ==
    (IF r1 = <<>> THEN <<>> ELSE <<[key |-> "f.ts > t1", val |-> [runs |-> r1]]>>)
    \o (IF r2 = <<>> THEN <<>> ELSE <<[key |-> "f.ts > t2", val |-> [runs |-> r2]]>>)

FilesOf(file) == [NoFiles EXCEPT !.historyFile = file]

InitFlakyOn(Files) ==
    /\ options = constructor(NoOptions)
    /\ testMetrics = <<>>
    /\ currentTest = None
    /\ now = 0
    /\ ret = [op |-> "constructor", args |-> <<>>, env |-> None, time |-> 0,
              val |-> None, threw |-> FALSE]
    /\ flakyTracker = None
    /\ fs \in Files
    /\ hooks = NoHooks
    /\ currentLeakTestId = None
    /\ cache = None

\* An identity of the current run may be saved: its run list holds fewer
\* than MaxSaved results of this behaviour.
MaySave(testName) ==
    MapHas(flakyTracker[1].history, testName) =>
        LET runs == MapGet(flakyTracker[1].history, testName).runs
        IN  Cardinality({i \in DOMAIN runs : runs[i].timestamp >= 0}) < MaxSaved

\* The run has ended: onRunComplete made its calls.
RunEnded == ret.op \in {"saveHistory", "analyzeFlakyTests", "onRunComplete"}

\* The calls of one run, in the order the test runner makes them: the
\* reporter is constructed when the run starts (again, if the constructor
\* threw), the tests named Names report one of the Results (status,
\* duration, retries) while the run lasts, and saveHistory and
\* analyzeFlakyTests are called when it ends.
FlakyNextOn(Passed, Names, Results) ==
    \/ \E o \in Passed :
          /\ flakyTracker = None
          /\ CustomReporter(o)
    \/ \E n \in Names, r \in Results :
          /\ flakyTracker # None /\ ~RunEnded
          /\ MaySave(n)
          /\ recordTest(n, r[1], r[2], r[3])
    \/ /\ flakyTracker # None
       /\ \A n \in MapKeys(flakyTracker[1].currentRun.tests) : MaySave(n)
       /\ saveHistory
    \/ AnalyzeFlakyTests
    \/ Tick

(* The life cycle of the history: every kind of history file, short run    *)
(* lists on both sides of the maxHistoryRuns passed, two identities.       *)
FlakyIds == {"f.ts > t1", "f.ts > t2"}
TestResults == {<<"passed", 10, 0>>, <<"failed", 30, 1>>}

HistoryFiles ==
    {HistoryFile(st, <<>>) : st \in {"missing", "unreadable", "invalid", "ok"}}
    \cup {HistoryFile("ok", HistoryOf(LoadedRuns(n, "mixed"), <<>>)) :
            n \in {1, 4, 5, 7}}
    \cup {HistoryFile("ok", HistoryOf(LoadedRuns(n, "mixed"),
                                      LoadedRuns(3, "latestFailed"))) :
            n \in {0, 2, 7}}

HistoryOptions ==
    {[NoReporterOptions EXCEPT !.maxHistoryRuns = m] :
        m \in {None, Some(2), Some(5)}}

InitFlaky == InitFlakyOn({FilesOf(f) : f \in HistoryFiles})
NextFlaky == FlakyNextOn(HistoryOptions, FlakyIds, TestResults)
SpecFlaky == InitFlaky /\ [][NextFlaky]_vars

(* The analysis: run lists of t1 on both sides of the minimum of 3 runs    *)
(* and of the window of 20, of every pattern, next to a run list of t2,    *)
(* under five thresholds.                                                  *)
\* 0.1, 0.3 and 0.5 as doubles.
OneTenth == Dbl(107374182, 26843546, 56)
ThreeTenths == Dbl(80530636, 53687091, 54)
OneHalf == Dbl(67108864, 0, 53)

LoadedLengths == {2, 3, 5, 8, FlakyWindow - 1, FlakyWindow, MaxLoaded}

AnalysisFiles ==
    {HistoryFile("ok", HistoryOf(LoadedRuns(n, p), r2)) :
        n \in LoadedLengths, p \in Patterns,
        r2 \in {<<>>, LoadedRuns(4, "oldestFailed"), LoadedRuns(5, "mixed"),
                LoadedRuns(FlakyWindow, "skipped")}}

AnalysisOptions ==
    {[NoReporterOptions EXCEPT !.flakyThreshold = t] :
        t \in {None, Some(OneTenth), Some(ThreeTenths), Some(OneHalf),
               Some(IntDbl(1))}}

InitAnalysis == InitFlakyOn({FilesOf(f) : f \in AnalysisFiles})
NextAnalysis ==
    FlakyNextOn(AnalysisOptions, {"f.ts > t1"}, {<<"failed", 30, 1>>})
SpecAnalysis == InitAnalysis /\ [][NextAnalysis]_vars

(* The end of the run: history files and log files that can and that       *)
(* cannot be written, with run lists that the results of this run make     *)
(* flaky or leave stable.  The files stay as they are for the whole run, so *)
(* a reporter whose constructor logged has a log it can write.             *)
RunEndFiles ==
    {[FilesOf(HistoryFile(st, h)) EXCEPT !.historyWritable = w,
                                         !.logWritable = l] :
        st \in {"missing", "ok"},
        h \in {<<>>, HistoryOf(LoadedRuns(2, "passed"), <<>>),
               HistoryOf(LoadedRuns(4, "mixed"), LoadedRuns(2, "failed"))},
        w \in BOOLEAN, l \in BOOLEAN}

InitRunEnd == InitFlakyOn(RunEndFiles)
NextRunEnd ==
    \/ FlakyNextOn({NoReporterOptions}, FlakyIds, TestResults)
    \/ /\ flakyTracker # None
       /\ \A n \in MapKeys(flakyTracker[1].currentRun.tests) : MaySave(n)
       /\ onRunComplete
SpecRunEnd == InitRunEnd /\ [][NextRunEnd]_vars

(***************************************************************************)
(* Properties.                                                             *)
(***************************************************************************)
\* The reports of the given type in a list of reports.
OfType(reports, type) == SelectSeq(reports, LAMBDA r : r.type = type)

\* This step is a call of the method op (a call that changes nothing at
\* all is a stuttering step).
CallStep(op) == ret'.op = op /\ (ret.op # op \/ ret' # ret)

\* This step is a finishTest that found the record of its id.
FinishStep == CallStep("finishTest") /\ ret'.val # None
\* The id finished, its record before and after, the process state captured.
FinishedId == ret'.args[1]
Before == MapGet(testMetrics, FinishedId)
After == MapGet(testMetrics', FinishedId)
\* This step finishes a record that is in flight: one startTest/finishTest
\* pair.
FirstFinishStep == FinishStep /\ Before.status = None

\* The heap delta of this finishTest, and the whole number of MB that
\* options.memoryThresholdMB holds.
HeapDelta == NumSub(ret'.env[1].heapUsed, Before.initialMemory.heapUsed)
ThresholdMB == options.memoryThresholdMB.hi \div 2^(options.memoryThresholdMB.e - 26)
\* delta, in bytes, is more than k MB.
MoreThanMB(delta, k) == delta.b > k * MB \/ (delta.b = k * MB /\ delta.f > 0)

\* C1: one startTest/finishTest pair with initial.heapUsed > 0 whose heap
\* delta in MB is strictly above memoryThresholdMB leaves exactly one
\* MEMORY_LEAK report, of severity high, in leaksDetected and no
\* MEMORY_GROWTH report in warnings, whatever the growth rate.
C1_LeakAboveThreshold ==
    [][(/\ FirstFinishStep
        /\ NumSign(Before.initialMemory.heapUsed) > 0
        /\ MoreThanMB(HeapDelta, ThresholdMB))
       => /\ Len(OfType(After.leaksDetected, "MEMORY_LEAK")) = 1
          /\ OfType(After.leaksDetected, "MEMORY_LEAK")[1].severity = "high"
          /\ Len(OfType(After.warnings, "MEMORY_GROWTH")) = 0]_vars

\* A finished record holds one MEMORY_LEAK although its heap grew by less
\* than the growth threshold of 20 %: 50,000,000 to 55,000,000 bytes with
\* memoryThresholdMB = 1.
C1_Witness ==
    /\ ret.op = "finishTest" /\ ret.val # None
    /\ ThresholdMB = 1
    /\ ret.val[1].initialMemory.heapUsed = HeapAtRest
    /\ ret.val[1].finalMemory = Some([heapUsed |-> IntNum(55000000)])
    /\ Len(OfType(ret.val[1].leaksDetected, "MEMORY_LEAK")) = 1
    /\ ret.val[1].warnings = <<>>

\* C2: initial.heapUsed = 100 MB, final.heapUsed = 100 MB + 0.01 MB,
\* heapGrowthThreshold = 0.0001 and memoryThresholdMB = 50: finishTest
\* gives exactly one MEMORY_GROWTH warning, of severity medium, and no
\* MEMORY_LEAK.
C2_GrowthWarning ==
    [][(/\ FirstFinishStep
        /\ Before.initialMemory.heapUsed = IntNum(100 * MB)
        /\ ret'.env[1].heapUsed = HundredMBAndOneHundredth
        /\ options.heapGrowthThreshold = OneTenThousandth
        /\ ThresholdMB = 50)
       => /\ Len(OfType(After.warnings, "MEMORY_GROWTH")) = 1
          /\ OfType(After.warnings, "MEMORY_GROWTH")[1].severity = "medium"
          /\ Len(After.warnings) = 1
          /\ Len(OfType(After.leaksDetected, "MEMORY_LEAK")) = 0]_vars

C2_Witness ==
    /\ ret.op = "finishTest" /\ ret.val # None
    /\ options.heapGrowthThreshold = OneTenThousandth
    /\ ret.val[1].initialMemory.heapUsed = IntNum(100 * MB)
    /\ ret.val[1].finalMemory = Some([heapUsed |-> HundredMBAndOneHundredth])
    /\ Len(ret.val[1].warnings) = 1
    /\ ret.val[1].warnings[1].type = "MEMORY_GROWTH"
    /\ ret.val[1].leaksDetected = <<>>

\* C3: with initial.heapUsed zero or negative, a finishTest whose heap delta
\* in MB is at most memoryThresholdMB adds no MEMORY_GROWTH warning (and
\* does not throw).
C3_NoSignalOnDegenerateHeap ==
    [][(/\ FirstFinishStep
        /\ NumSign(Before.initialMemory.heapUsed) <= 0
        /\ ~MoreThanMB(HeapDelta, ThresholdMB))
       => /\ ~ret'.threw
          /\ Len(OfType(After.warnings, "MEMORY_GROWTH")) = 0]_vars

\* The set of the elements of a sequence.
Range(s) == {s[i] : i \in DOMAIN s}
\* The reports of a type that this finishTest pushed to leaksDetected.
Emitted(type) ==
    Len(OfType(After.leaksDetected, type)) - Len(OfType(Before.leaksDetected, type))
\* The last report of a type in the record after this finishTest.
LastOfType(type) ==
    OfType(After.leaksDetected, type)[Len(OfType(After.leaksDetected, type))]
\* The global names at startTest (A) and at this finishTest (B).
GlobalsA == Range(Before.initialGlobals)
GlobalsB == Range(ret'.env[1].globalNames)

\* C4: the new-globals list of the global check holds exactly the names of
\* B minus A, each once; when B minus A is empty (A = B, or names only
\* disappeared) no GLOBAL_VARIABLE_LEAK is emitted, and a report counts
\* exactly the names of B minus A.
C4_GlobalDiffIsSetDifference ==
    [][FinishStep =>
        LET newGlobals == diffGlobalState(Before.initialGlobals,
                                          ret'.env[1].globalNames)
        IN  /\ Range(newGlobals) = GlobalsB \ GlobalsA
            /\ Len(newGlobals) = Cardinality(GlobalsB \ GlobalsA)
            /\ GlobalsB \ GlobalsA = {} => Emitted("GLOBAL_VARIABLE_LEAK") = 0
            /\ Emitted("GLOBAL_VARIABLE_LEAK") > 0 =>
                  LastOfType("GLOBAL_VARIABLE_LEAK").details.totalCount
                  = Cardinality(GlobalsB \ GlobalsA)]_vars

\* A finished record whose test dropped the name a and created b: the one
\* report counts one new name.
C4_Witness ==
    /\ ret.op = "finishTest" /\ ret.val # None
    /\ ret.val[1].initialGlobals = <<"a">>
    /\ ret.val[1].finalGlobals = Some(<<"b">>)
    /\ Len(ret.val[1].leaksDetected) = 1
    /\ ret.val[1].leaksDetected[1].details.newGlobals = <<"b">>

Min(a, b) == IF a < b THEN a ELSE b

\* C5: with trackGlobals on and B minus A non-empty, finishTest emits
\* exactly one GLOBAL_VARIABLE_LEAK, of severity high iff |B minus A| > 5
\* and medium otherwise, with totalCount = |B minus A| and with
\* min(10, |B minus A|) distinct names of B minus A in newGlobals;
\* A = {a, b}, B = {a, b, c, d} gives newGlobals [c, d], totalCount 2,
\* medium.
C5_GlobalLeakReport ==
    [][(FinishStep /\ options.trackGlobals /\ GlobalsB \ GlobalsA # {}) =>
        LET n == Cardinality(GlobalsB \ GlobalsA)
            r == LastOfType("GLOBAL_VARIABLE_LEAK")
        IN  /\ Emitted("GLOBAL_VARIABLE_LEAK") = 1
            /\ r.severity = IF n > 5 THEN "high" ELSE "medium"
            /\ r.details.totalCount = n
            /\ Len(r.details.newGlobals) = Min(10, n)
            /\ Cardinality(Range(r.details.newGlobals)) = Min(10, n)
            /\ Range(r.details.newGlobals) \subseteq GlobalsB \ GlobalsA
            /\ (/\ Before.initialGlobals = <<"a", "b">>
                /\ ret'.env[1].globalNames = <<"a", "b", "c", "d">>)
               => /\ r.details.newGlobals = <<"c", "d">>
                  /\ r.details.totalCount = 2
                  /\ r.severity = "medium"]_vars

\* A report of eleven new names that lists ten of them.
C5_Witness ==
    /\ ret.op = "finishTest" /\ ret.val # None
    /\ Len(ret.val[1].leaksDetected) = 1
    /\ ret.val[1].leaksDetected[1].type = "GLOBAL_VARIABLE_LEAK"
    /\ ret.val[1].leaksDetected[1].severity = "high"
    /\ ret.val[1].leaksDetected[1].details.totalCount = 11
    /\ Len(ret.val[1].leaksDetected[1].details.newGlobals) = 10

\* The timer and listener counts at startTest and at this finishTest.
TimerDiff ==
    ret'.env[1].handles + ret'.env[1].requests - Before.initialTimers.count
ListenerDiff == ret'.env[1].listeners - Before.initialEventListeners.count

\* C6: with both checks on, finishTest emits no TIMER_LEAK /
\* EVENT_LISTENER_LEAK when the count did not grow and exactly one when it
\* grew; the severity is high iff the growth is above 5 for timers and
\* above 10 for listeners, medium otherwise; the details carry the initial
\* count, the final count and the growth.
C6_CountLeakReports ==
    [][(FinishStep /\ options.trackTimers /\ options.trackEventListeners) =>
        /\ TimerDiff <= 0 => Emitted("TIMER_LEAK") = 0
        /\ TimerDiff > 0 =>
              /\ Emitted("TIMER_LEAK") = 1
              /\ LastOfType("TIMER_LEAK").severity
                 = IF TimerDiff > 5 THEN "high" ELSE "medium"
              /\ LastOfType("TIMER_LEAK").details
                 = [initialCount |-> Before.initialTimers.count,
                    finalCount |-> ret'.env[1].handles + ret'.env[1].requests,
                    leakedTimers |-> TimerDiff]
        /\ ListenerDiff <= 0 => Emitted("EVENT_LISTENER_LEAK") = 0
        /\ ListenerDiff > 0 =>
              /\ Emitted("EVENT_LISTENER_LEAK") = 1
              /\ LastOfType("EVENT_LISTENER_LEAK").severity
                 = IF ListenerDiff > 10 THEN "high" ELSE "medium"
              /\ LastOfType("EVENT_LISTENER_LEAK").details
                 = [initialCount |-> Before.initialEventListeners.count,
                    finalCount |-> ret'.env[1].listeners,
                    leakedListeners |-> ListenerDiff]]_vars

\* A record with eleven more listeners (high) and no TIMER_LEAK, its timer
\* count being the same at both ends.
C6_Witness ==
    /\ ret.op = "finishTest" /\ ret.val # None
    /\ Len(ret.val[1].leaksDetected) = 1
    /\ ret.val[1].leaksDetected[1].type = "EVENT_LISTENER_LEAK"
    /\ ret.val[1].leaksDetected[1].severity = "high"
    /\ ret.val[1].leaksDetected[1].details.leakedListeners = 11
    /\ ret.val[1].initialTimers.count = ret.val[1].finalTimers[1].count

\* The types of the reports a record holds.
TypesOf(m) ==
    {m.leaksDetected[i].type : i \in DOMAIN m.leaksDetected}
    \cup {m.warnings[i].type : i \in DOMAIN m.warnings}

\* C7: no record ever holds a report of a category whose flag is false,
\* and the memory check runs whatever the three flags are: a heap delta
\* above memoryThresholdMB emits one MEMORY_LEAK.
C7_FlagsGateChecks ==
    /\ [](\A i \in DOMAIN testMetrics :
            /\ ~options.trackGlobals =>
                  "GLOBAL_VARIABLE_LEAK" \notin TypesOf(testMetrics[i].val)
            /\ ~options.trackTimers =>
                  "TIMER_LEAK" \notin TypesOf(testMetrics[i].val)
            /\ ~options.trackEventListeners =>
                  "EVENT_LISTENER_LEAK" \notin TypesOf(testMetrics[i].val))
    /\ [][(FinishStep /\ MoreThanMB(HeapDelta, ThresholdMB))
          => Emitted("MEMORY_LEAK") = 1]_vars

\* With the three flags false, a test that leaked in every category has
\* the MEMORY_LEAK report and no other.
C7_Witness ==
    /\ ~options.trackGlobals /\ ~options.trackTimers
    /\ ~options.trackEventListeners
    /\ ret.op = "finishTest" /\ ret.val # None
    /\ ret.val[1].initialGlobals = Quiet.globalNames
    /\ ret.val[1].finalGlobals = Some(Leaky.globalNames)
    /\ ret.val[1].finalTimers[1].count > ret.val[1].initialTimers.count
    /\ ret.val[1].finalEventListeners[1].count
       > ret.val[1].initialEventListeners.count
    /\ Len(ret.val[1].leaksDetected) = 1
    /\ ret.val[1].leaksDetected[1].type = "MEMORY_LEAK"

\* C8: after startTest(name, file) the call has returned file + " > " +
\* name, and the tracker holds under that key, once, a record with that name
\* and file, the snapshot captured at the call, empty leaksDetected and
\* warnings, and no status, endTime, duration or final snapshot.
C8_StartTestOpensRecord ==
    ret.op = "startTest" =>
        LET testName == ret.args[1]
            testFile == ret.args[2]
            testId == testFile \o " > " \o testName
            env == ret.env[1]
        IN  /\ ~ret.threw
            /\ ret.val = Some(testId)
            /\ Cardinality({i \in DOMAIN testMetrics :
                               testMetrics[i].key = testId}) = 1
            /\ MapGet(testMetrics, testId) =
                  [testName |-> testName,
                   testFile |-> testFile,
                   startTime |-> ret.time,
                   endTime |-> None,
                   duration |-> None,
                   status |-> None,
                   initialMemory |-> [heapUsed |-> env.heapUsed],
                   finalMemory |-> None,
                   initialGlobals |-> env.globalNames,
                   finalGlobals |-> None,
                   initialTimers |-> [count |-> env.handles + env.requests],
                   finalTimers |-> None,
                   initialEventListeners |-> [count |-> env.listeners],
                   finalEventListeners |-> None,
                   leaksDetected |-> <<>>,
                   warnings |-> <<>>]

\* startTest of t2 in a leaky process, at time 1, while t1 is held finished.
C8_Witness ==
    /\ ret.op = "startTest"
    /\ ret.args = <<"t2", "f.ts">>
    /\ ret.env = Some(Leaky)
    /\ ret.time = 1
    /\ Len(testMetrics) = 2
    /\ MapHas(testMetrics, "f.ts > t1")
    /\ MapGet(testMetrics, "f.ts > t1").status = Some("passed")

\* C9: finishTest with an id the tracker holds no record for returns null,
\* does not throw and leaves the metrics mapping, and so every count of
\* getSummary, unchanged.
C9_FinishUnknownIsNoOp ==
    [][(CallStep("finishTest") /\ ~MapHas(testMetrics, ret'.args[1])) =>
        /\ ret'.val = None
        /\ ~ret'.threw
        /\ testMetrics' = testMetrics
        /\ getSummary(testMetrics') = getSummary(testMetrics)]_vars

\* finishTest of t1 returned null while the tracker holds only t2, with
\* leaks: t1 was never started, or was discarded by cleanup.
C9_Witness ==
    /\ ret.op = "finishTest"
    /\ ret.args[1] = "f.ts > t1"
    /\ ret.val = None
    /\ MapKeys(testMetrics) = {"f.ts > t2"}
    /\ getSummary(testMetrics).totalLeaks > 0

\* C10: finishTest on a tracked id keeps the number and the keys of the
\* held records, sets the record's status to the status passed in, and
\* leaves its testName, testFile, startTime and initial snapshot, and every
\* other record, unchanged.
C10_FinishTestFrame ==
    [][FinishStep =>
        /\ Len(testMetrics') = Len(testMetrics)
        /\ \A i \in DOMAIN testMetrics :
              /\ testMetrics'[i].key = testMetrics[i].key
              /\ testMetrics[i].key # FinishedId
                    => testMetrics'[i].val = testMetrics[i].val
        /\ After.status = Some(ret'.args[2])
        /\ After.testName = Before.testName
        /\ After.testFile = Before.testFile
        /\ After.startTime = Before.startTime
        /\ After.initialMemory = Before.initialMemory
        /\ After.initialGlobals = Before.initialGlobals
        /\ After.initialTimers = Before.initialTimers
        /\ After.initialEventListeners = Before.initialEventListeners]_vars

\* t1, started at time 0 in a quiet process, was finished as failed at time
\* 1 in a leaky one, while t2 is held as well.
C10_Witness ==
    /\ ret.op = "finishTest" /\ ret.val # None
    /\ ret.args = <<"f.ts > t1", "failed">>
    /\ Len(testMetrics) = 2
    /\ ret.val[1].startTime = 0 /\ ret.val[1].endTime = Some(1)
    /\ ret.val[1].initialMemory = [heapUsed |-> HeapAtRest]
    /\ ret.val[1].finalMemory = Some([heapUsed |-> HeapGrown])
    /\ ret.val[1].status = Some("failed")

EmptySummary(s) ==
    /\ s.totalTests = 0
    /\ s.totalLeaks = 0
    /\ s.totalWarnings = 0
    /\ s.worstOffenders = <<>>

\* C12: cleanup does not throw, whatever records are held, finished or in
\* flight; after it the mapping is empty, getSummary counts no test, leak or
\* warning and lists no offender, and finishTest returns null for every id
\* that was held before it.
C12_CleanupDiscardsAll ==
    [][/\ CallStep("cleanup") =>
            /\ ~ret'.threw
            /\ testMetrics' = <<>>
            /\ EmptySummary(getSummary(testMetrics'))
            /\ \A id \in MapKeys(testMetrics) : ~MapHas(testMetrics', id)
       /\ (ret.op = "cleanup" /\ CallStep("getSummary")) =>
            EmptySummary(ret'.val[1])
       /\ (ret.op = "cleanup" /\ CallStep("finishTest")) =>
            ret'.val = None /\ testMetrics' = <<>>]_vars

\* cleanup was called at time 1 or later and left no record and no current
\* test.
C12_Witness ==
    /\ ret.op = "cleanup"
    /\ ~ret.threw
    /\ ret.time >= 1
    /\ testMetrics = <<>>
    /\ currentTest = None
    /\ EmptySummary(getSummary(testMetrics))

\* The entries of the current run and the history of the tracker.
CurrentTests == flakyTracker[1].currentRun.tests
History == flakyTracker[1].history

\* C13: a call recordTest(id, status, duration, retries) leaves the current
\* run with one entry for each identity it held and for id, and no second
\* entry for any; the entry of id carries the status, duration and retries
\* of this call, and the entries of the other identities are as they were.
C13_RecordTestLastWriteWins ==
    [][CallStep("recordTest") =>
        LET id == ret'.args[1]
        IN  /\ MapKeys(CurrentTests') = MapKeys(CurrentTests) \cup {id}
            /\ Len(CurrentTests') = Cardinality(MapKeys(CurrentTests'))
            /\ MapGet(CurrentTests', id).status = ret'.args[2]
            /\ MapGet(CurrentTests', id).duration = ret'.args[3]
            /\ MapGet(CurrentTests', id).retries = ret'.args[4]
            /\ \A k \in MapKeys(CurrentTests) \ {id} :
                  MapGet(CurrentTests', k) = MapGet(CurrentTests, k)]_vars

\* t1 was recorded before t2, and once more, as failed, after it.
C13_Witness ==
    /\ ret.op = "recordTest"
    /\ ret.args = <<"f.ts > t1", "failed", 30, 1>>
    /\ ret.time = 1
    /\ Len(CurrentTests) = 2
    /\ CurrentTests[1] = [key |-> "f.ts > t1",
                          val |-> [status |-> "failed", duration |-> 30,
                                   retries |-> 1, timestamp |-> 1]]
    /\ CurrentTests[2].key = "f.ts > t2"
    /\ CurrentTests[2].val.timestamp = 0

\* The run entry saveHistory makes of the current-run entry of id.
RunEntry(id) ==
    LET r == MapGet(CurrentTests, id)
    IN  [timestamp |-> r.timestamp, status |-> r.status,
         duration |-> r.duration, retries |-> r.retries]
\* The run list of id in the history h, empty when h has no entry for id.
RunsOf(h, id) == IF MapHas(h, id) THEN MapGet(h, id).runs ELSE <<>>

\* C14: saveHistory gives every identity of the current run the run list
\* made of the last maxHistoryRuns entries of its previous list followed by
\* its current-run entry: the entry is there once more and last, the
\* entries before it are the latest of the previous list in their order,
\* and an identity without history gets a list of that one entry.
C14_SaveHistoryAppendsAndTruncates ==
    [][CallStep("saveHistory") =>
        \A id \in MapKeys(CurrentTests) :
            LET previous == RunsOf(History, id)
                full == Append(previous, RunEntry(id))
                kept == Min(Len(full), flakyTracker[1].maxHistoryRuns)
                runs == RunsOf(History', id)
            IN  /\ MapHas(History', id)
                /\ runs = SubSeq(full, Len(full) - kept + 1, Len(full))
                /\ runs[Len(runs)] = RunEntry(id)
                /\ SubSeq(runs, 1, Len(runs) - 1)
                      = SubSeq(previous, Len(previous) - Len(runs) + 2,
                               Len(previous))
                /\ previous = <<>> => runs = <<RunEntry(id)>>]_vars

\* With maxHistoryRuns = 5, t1 came with 7 runs and was saved with the 4
\* latest of them and its new entry; t2 came without history and was saved
\* with one entry.
C14_Witness ==
    /\ ret.op = "saveHistory"
    /\ flakyTracker[1].maxHistoryRuns = 5
    /\ Len(RunsOf(History, "f.ts > t1")) = 5
    /\ [i \in 1..4 |-> RunsOf(History, "f.ts > t1")[i].timestamp]
          = <<-4, -3, -2, -1>>
    /\ RunsOf(History, "f.ts > t1")[5].timestamp >= 0
    /\ Len(RunsOf(History, "f.ts > t2")) = 1
    /\ RunsOf(History, "f.ts > t2")[1].timestamp >= 0

\* C15: once saveHistory has returned, the history file holds, for every
\* identity, recorded in this run or not, a run list of at most
\* maxHistoryRuns entries.
C15_PersistedRunListsBounded ==
    (ret.op = "saveHistory" /\ ~ret.threw) =>
        /\ fs.historyFile.state = "ok"
        /\ \A i \in DOMAIN fs.historyFile.data :
              Len(fs.historyFile.data[i].val.runs)
                 <= flakyTracker[1].maxHistoryRuns

\* The trailing window of a run list, and the number of its runs that have
\* a status.
Window(runs) ==
    IF Len(runs) <= 20 THEN runs ELSE [i \in 1..20 |-> runs[Len(runs) - 20 + i]]
CountStatus(runs, status) ==
    Cardinality({i \in DOMAIN runs : runs[i].status = status})

\* The fraction <<n, d>> that the threshold, a double, was written as.
Fraction(t) ==
    CASE t = DefaultFlakyThreshold -> <<1, 5>>
      [] t = OneTenth -> <<1, 10>>
      [] t = ThreeTenths -> <<3, 10>>
      [] t = OneHalf -> <<1, 2>>
      [] t = IntDbl(1) -> <<1, 1>>

\* The identity with these runs is flaky under the threshold t.
Flaky(runs, t) ==
    /\ Len(runs) >= 3
    /\ CountStatus(Window(runs), "passed") >= 1
    /\ CountStatus(Window(runs), "failed") >= 1
    /\ CountStatus(Window(runs), "failed") * Fraction(t)[2]
          >= Len(Window(runs)) * Fraction(t)[1]

\* The analyses the last call of analyzeFlakyTests returned.
Analyses == ret.val[1]
Reported == {Analyses[i].testName : i \in DOMAIN Analyses}

\* C16: analyzeFlakyTests returns an analysis, and only one, for exactly
\* the identities whose history has 3 runs or more and whose last 20 runs
\* hold a passed run, a failed run and a share of failed runs of at least
\* flakyThreshold; 20 passed runs, or 2 runs, are not reported.
C16_FlakyIffMixedAndAboveThreshold ==
    ret.op = "analyzeFlakyTests" =>
        /\ Reported =
              {History[i].key : i \in
                  {j \in DOMAIN History :
                      Flaky(History[j].val.runs,
                            flakyTracker[1].flakyThreshold)}}
        /\ Len(Analyses) = Cardinality(Reported)
        /\ \A i \in DOMAIN History :
              LET runs == History[i].val.runs
              IN  (\/ Len(runs) = 2
                   \/ (Len(runs) >= 20 /\ CountStatus(Window(runs), "passed") = 20))
                  => History[i].key \notin Reported

\* Under the threshold 0.3, t1 with its 2 runs, one passed and one failed,
\* is not reported, and t2 with 6 failed runs among its last 20 is.
C16_Witness ==
    /\ ret.op = "analyzeFlakyTests"
    /\ flakyTracker[1].flakyThreshold = ThreeTenths
    /\ RunsOf(History, "f.ts > t1") = LoadedRuns(2, "mixed")
    /\ Len(RunsOf(History, "f.ts > t2")) = 20
    /\ CountStatus(RunsOf(History, "f.ts > t2"), "failed") = 6
    /\ Reported = {"f.ts > t2"}

\* The absolute value of a whole number.
Abs(n) == IF n < 0 THEN -n ELSE n

\* C17: every analysis returned has totalRuns = min(20, length of the
\* history), failures = the number of failed runs among those last runs,
\* failureRate = the whole number nearest to 100 * failures / totalRuns,
\* failures + passes = totalRuns and lastFailure = the timestamp of the
\* latest failed run among them; [pass, fail, pass, fail, pass] under the
\* threshold 0.2 has failureRate 40 and totalRuns 5.
C17_AnalysisFigures ==
    ret.op = "analyzeFlakyTests" =>
        \A i \in DOMAIN Analyses :
            LET a == Analyses[i]
                runs == RunsOf(History, a.testName)
                recent == Window(runs)
                failed == {j \in DOMAIN recent : recent[j].status = "failed"}
            IN  /\ a.totalRuns = Min(20, Len(runs))
                /\ a.failures = Cardinality(failed)
                /\ 2 * Abs(100 * a.failures - a.failureRate * a.totalRuns)
                      <= a.totalRuns
                /\ a.failures + a.passes = a.totalRuns
                /\ \E j \in failed :
                      /\ a.lastFailure = Some(recent[j].timestamp)
                      /\ \A k \in failed :
                            k <= j /\ recent[k].timestamp <= recent[j].timestamp
                /\ (/\ [j \in DOMAIN runs |-> runs[j].status]
                          = <<"passed", "failed", "passed", "failed", "passed">>
                    /\ flakyTracker[1].flakyThreshold = DefaultFlakyThreshold)
                      => a.failureRate = 40 /\ a.totalRuns = 5

\* Under the threshold 0.2, t2 with [pass, fail, pass, fail, pass] has the
\* rate 40 over 5 runs, and t1, with more than 20 runs, the rate 50 over its
\* last 20 runs, 10 of them failed, the latest failed one being the last but
\* one.
C17_Witness ==
    /\ ret.op = "analyzeFlakyTests"
    /\ flakyTracker[1].flakyThreshold = DefaultFlakyThreshold
    /\ \E i \in DOMAIN Analyses :
          /\ Analyses[i].testName = "f.ts > t2"
          /\ RunsOf(History, "f.ts > t2") = LoadedRuns(5, "mixed")
          /\ Analyses[i].failureRate = 40
          /\ Analyses[i].totalRuns = 5
          /\ Analyses[i].failures = 2
          /\ Analyses[i].passes = 3
          /\ Analyses[i].lastFailure = Some(-2)
    /\ \E i \in DOMAIN Analyses :
          /\ Analyses[i].testName = "f.ts > t1"
          /\ Len(RunsOf(History, "f.ts > t1")) > 20
          /\ Analyses[i].failureRate = 50
          /\ Analyses[i].totalRuns = 20
          /\ Analyses[i].failures = 10
          /\ Analyses[i].lastFailure = Some(-2)

\* C18: in the list analyzeFlakyTests returns, no analysis has a lower
\* failureRate than the one after it.
C18_SortedByFailureRate ==
    ret.op = "analyzeFlakyTests" =>
        \A i \in 1..(Len(Analyses) - 1) :
            Analyses[i].failureRate >= Analyses[i + 1].failureRate

\* t1 (rate 20) comes before t2 (rate 40) in the history and after it in
\* the list returned.
C18_Witness ==
    /\ ret.op = "analyzeFlakyTests"
    /\ Len(Analyses) = 2
    /\ History[1].key = "f.ts > t1"
    /\ History[2].key = "f.ts > t2"
    /\ Analyses[1].testName = "f.ts > t2" /\ Analyses[1].failureRate = 40
    /\ Analyses[2].testName = "f.ts > t1" /\ Analyses[2].failureRate = 20

C20_ConstructorSurvivesHistoryFile ==
    (/\ ret.op = "CustomReporter"
     /\ fs.historyFile.state \in {"missing", "unreadable", "invalid"})
        => /\ ~ret.threw
           /\ flakyTracker # None
           /\ History = <<>>

\* The last entry of the run list of id in the history h is the entry
\* saveHistory makes of its current-run entry.
SavedLast(h, id) ==
    LET runs == RunsOf(h, id)
    IN  runs # <<>> /\ runs[Len(runs)] = RunEntry(id)

C22_MissingPrimitivesCountZero ==
    ret.op \in {"startTest", "finishTest"} =>
        /\ ~ret.threw
        /\ (ret.op = "finishTest" /\ ret.val # None) =>
              LET env == ret.env[1]
                  metrics == ret.val[1]
              IN  /\ "handles" \notin DOMAIN env =>
                        /\ metrics.finalTimers[1].count = 0
                        /\ OfType(metrics.leaksDetected, "TIMER_LEAK") = <<>>
                  /\ "listeners" \notin DOMAIN env =>
                        /\ metrics.finalEventListeners[1].count = 0
                        /\ OfType(metrics.leaksDetected,
                                  "EVENT_LISTENER_LEAK") = <<>>

\* The reports of every record held: its leaksDetected, its warnings.
AllLeaks == Flatten([i \in DOMAIN testMetrics |-> testMetrics[i].val.leaksDetected])
AllWarnings == Flatten([i \in DOMAIN testMetrics |-> testMetrics[i].val.warnings])

\* C23 as stated: every report in the leaksDetected of a record has the
\* severity high, and every report in the warnings of a record has a
\* severity below high.
C23_LeaksAreHigh ==
    /\ \A i \in DOMAIN AllLeaks : AllLeaks[i].severity = "high"
    /\ \A i \in DOMAIN AllWarnings : AllWarnings[i].severity \in {"low", "medium"}

\* C23, amended: every report in the leaksDetected of a record is of one
\* of the four leak types and of severity high or medium, a MEMORY_LEAK
\* always high; every report in the warnings of a record is a
\* MEMORY_GROWTH of severity medium.
C23_SeverityByList ==
    /\ \A i \in DOMAIN AllLeaks :
          /\ AllLeaks[i].type \in {"MEMORY_LEAK", "GLOBAL_VARIABLE_LEAK",
                                   "TIMER_LEAK", "EVENT_LISTENER_LEAK"}
          /\ AllLeaks[i].severity \in {"high", "medium"}
          /\ AllLeaks[i].type = "MEMORY_LEAK" => AllLeaks[i].severity = "high"
    /\ \A i \in DOMAIN AllWarnings :
          /\ AllWarnings[i].type = "MEMORY_GROWTH"
          /\ AllWarnings[i].severity = "medium"

\* Two finished records: one with a warning and three medium leak reports,
\* one with four high leak reports.
C23_Witness ==
    /\ Len(testMetrics) = 2
    /\ Len(AllWarnings) = 1
    /\ Len(AllLeaks) = 7
    /\ Cardinality({i \in DOMAIN AllLeaks : AllLeaks[i].severity = "medium"}) = 3
    /\ Cardinality({i \in DOMAIN AllLeaks : AllLeaks[i].severity = "high"}) = 4

\* This step is a run of the hook h.
HookStep(h) == hooks' # hooks /\ hooks'.last[1].hook = h
\* The names and the file of HookNames and HookFiles that one of the three
\* patterns of the setup file matches.
Excluded(testName, testFile) ==
    \/ testName \in {"a Stress-Test", "performance Benchmark"}
    \/ testFile = "stress/a.test.ts"

\* C24: the beforeEach and the afterEach of a test whose name or file an
\* exclude pattern matches call no method of the detector and leave its
\* records as they are, so no record is ever held for such a test and the
\* summary afterAll takes counts none; the beforeEach of any other test is
\* one call of startTest for it, which leaves its record in flight, and
\* the afterEach that follows is one call of finishTest for that id,
\* which returns the finished record.
C24_ExcludedTestsAreSkipped ==
    [][/\ HookStep("beforeEach") =>
            LET n == hooks'.last[1].testName
                f == hooks'.last[1].testFile
            IN  IF Excluded(n, f)
                THEN /\ ret' = ret
                     /\ testMetrics' = testMetrics
                     /\ hooks'.currentTestId = None
                ELSE /\ ret'.op = "startTest"
                     /\ ret'.args = <<n, f>>
                     /\ hooks'.currentTestId = Some(TestId(n, f))
                     /\ MapGet(testMetrics', TestId(n, f)).status = None
       /\ HookStep("afterEach") =>
            IF hooks.currentTestId = None
            THEN /\ ret' = ret
                 /\ testMetrics' = testMetrics
            ELSE /\ ret.op = "startTest"
                 /\ ret'.op = "finishTest"
                 /\ ret'.args[1] = hooks.currentTestId[1]
                 /\ ret'.val = Some(MapGet(testMetrics', hooks.currentTestId[1]))
                 /\ ret'.val[1].status # None
                 /\ hooks'.currentTestId = None
       /\ \A i \in DOMAIN testMetrics' :
            ~Excluded(testMetrics'[i].val.testName, testMetrics'[i].val.testFile)
       /\ HookStep("afterAll") =>
            hooks'.last[1].summary.totalTests = Len(testMetrics)]_vars

\* t1 of f.ts was started and finished; then came the beforeEach of
\* "a Stress-Test" of the same file, and the detector still holds the
\* record of t1 alone and has finishTest of t1 as its last call.
C24_Witness ==
    /\ hooks.last = Some([hook |-> "beforeEach", testName |-> "a Stress-Test",
                          testFile |-> "f.ts"])
    /\ hooks.currentTestId = None
    /\ MapKeys(testMetrics) = {"f.ts > t1"}
    /\ ret.op = "finishTest"
    /\ ret.args[1] = "f.ts > t1"

\* The first of the calls 1..maxRetries that resolves, 0 when none does.
FirstSuccess(outcomes, maxRetries) ==
    LET good == {k \in 1..maxRetries : outcomes[k].ok}
    IN  IF good = {} THEN 0 ELSE CHOOSE k \in good : \A j \in good : k <= j

\* C25: retryOperation with maxRetries >= 1 calls the operation up to its
\* first success among the first maxRetries calls and resolves to that
\* value; when none of them succeeds it has called the operation
\* maxRetries times and rejects with an error whose message is
\* "Operation failed after <maxRetries> attempts: " followed by the
\* message of the last failure.  Either way it has waited delayMs * k
\* after each failed call k but the last one made.
C25_RetryOperation ==
    (ret.op = "retryOperation" /\ ret.args[2] >= 1) =>
        LET outcomes == ret.args[1]
            maxRetries == ret.args[2]
            delayMs == ret.args[3]
            first == FirstSuccess(outcomes, maxRetries)
            result == ret.val[1]
            calls == IF first = 0 THEN maxRetries ELSE first
        IN  /\ result.calls = calls
            /\ result.calls <= maxRetries
            /\ result.delays = [k \in 1..(calls - 1) |-> delayMs * k]
            /\ IF first # 0
               THEN /\ result.settled = "resolved"
                    /\ result.with = Some(outcomes[first].value)
               ELSE /\ result.settled = "rejected"
                    /\ result.with[1].message =
                          "Operation failed after " \o ToString(maxRetries)
                          \o " attempts: "
                          \o outcomes[maxRetries].error.message

\* Three attempts of three failed in turn: two waits, of 10 and of 20, and
\* the rejection names the last failure.
C25_Witness ==
    /\ ret.op = "retryOperation"
    /\ ret.args[2] = 3
    /\ ret.args[3] = 10
    /\ ret.val[1].settled = "rejected"
    /\ ret.val[1].calls = 3
    /\ ret.val[1].delays = <<10, 20>>
    /\ ret.val[1].with[1].message
          = "Operation failed after 3 attempts: Fail 2"

\* The storage of the cache, and whether it holds a value for key that the
\* clock t has not passed.
Storage == cache[1].storage
Live(storage, key, t) == MapHas(storage, key) /\ t <= MapGet(storage, key).expiry
\* The entries of the other keys are the same in both storages.
OthersAlike(before, after, key) ==
    \A k \in (MapKeys(before) \cup MapKeys(after)) \ {key} :
        /\ MapHas(before, k) /\ MapHas(after, k)
        /\ MapGet(before, k) = MapGet(after, k)

\* C26: set(key, value, ttl) stores the value with the expiry now + ttl,
\* or now + the default TTL when no ttl is given, and leaves the other
\* keys alone; while the clock has not passed the expiry of key, get(key)
\* returns its value and has(key) is true, and afterwards get returns
\* undefined and has is false; size() is the number of keys whose expiry
\* the clock has not passed; delete(key) returns true iff the storage
\* held key, removes it and leaves the other keys alone; clear() empties
\* the storage, and size() right after it is 0.
C26_CacheExpiry ==
    [][/\ CallStep("set") =>
            LET key == ret'.args[1]
                ttl == IF ret'.args[3] = None THEN cache[1].defaultTtl
                       ELSE ret'.args[3][1]
            IN  /\ MapGet(Storage', key)
                      = [value |-> ret'.args[2], expiry |-> now + ttl]
                /\ OthersAlike(Storage, Storage', key)
       /\ CallStep("get") =>
            LET key == ret'.args[1]
            IN  /\ ret'.val = IF Live(Storage, key, now)
                              THEN Some(MapGet(Storage, key).value) ELSE None
                /\ Live(Storage, key, now) => Storage' = Storage
                /\ OthersAlike(Storage, Storage', key)
       /\ CallStep("has") =>
            /\ ret'.val = Some(Live(Storage, ret'.args[1], now))
            /\ OthersAlike(Storage, Storage', ret'.args[1])
       /\ CallStep("size") =>
            /\ ret'.val = Some(Cardinality({k \in MapKeys(Storage) :
                                              Live(Storage, k, now)}))
            /\ ret.op = "clear" => ret'.val = Some(0)
       /\ CallStep("delete") =>
            LET key == ret'.args[1]
            IN  /\ ret'.val = Some(MapHas(Storage, key))
                /\ ~MapHas(Storage', key)
                /\ OthersAlike(Storage, Storage', key)
       /\ CallStep("clear") => Storage' = <<>>]_vars

\* get("key1") returned value1 at the very time of its expiry, 1, in a
\* cache that also holds key2 with the default TTL of 300000.
C26_Witness ==
    /\ ret.op = "get"
    /\ ret.args = <<"key1">>
    /\ ret.val = Some("value1")
    /\ now = 1
    /\ MapGet(Storage, "key1").expiry = 1
    /\ cache[1].defaultTtl = DefaultTtlMs
    /\ MapHas(Storage, "key2")
    /\ MapGet(Storage, "key2").expiry >= DefaultTtlMs

\* C27: a record holds, in leaksDetected and warnings together, at most
\* one report of each type, however often finishTest was called for it: a
\* second finishTest without a startTest in between replaces the reports
\* of the first.
C27_RefinishOverwrites ==
    \A i \in DOMAIN testMetrics :
        \A type \in {"MEMORY_LEAK", "MEMORY_GROWTH", "GLOBAL_VARIABLE_LEAK",
                      "TIMER_LEAK", "EVENT_LISTENER_LEAK"} :
            Len(OfType(testMetrics[i].val.leaksDetected
                       \o testMetrics[i].val.warnings, type)) <= 1

\* C28: a call of startTest for an identity that has a record, in flight
\* or finished, leaves the number of records and the other records as they
\* were and puts in its place a record in flight: no status, no final
\* snapshot, no reports, the start time of this call and the initial
\* snapshot of the process at this call; the summary then counts the leak
\* reports and warnings of the other records only.
C28_RestartReplacesRecord ==
    [][(CallStep("startTest") /\ MapHas(testMetrics, ret'.val[1])) =>
        LET id == ret'.val[1]
            env == ret'.env[1]
            old == MapGet(testMetrics, id)
            new == MapGet(testMetrics', id)
        IN  /\ Len(testMetrics') = Len(testMetrics)
            /\ \A i \in DOMAIN testMetrics :
                  /\ testMetrics'[i].key = testMetrics[i].key
                  /\ testMetrics[i].key # id
                        => testMetrics'[i].val = testMetrics[i].val
            /\ new.status = None /\ new.endTime = None
            /\ new.finalMemory = None /\ new.finalGlobals = None
            /\ new.finalTimers = None /\ new.finalEventListeners = None
            /\ new.leaksDetected = <<>> /\ new.warnings = <<>>
            /\ new.startTime = now
            /\ new.initialMemory = [heapUsed |-> env.heapUsed]
            /\ new.initialGlobals = env.globalNames
            /\ new.initialTimers = [count |-> env.handles + env.requests]
            /\ new.initialEventListeners = [count |-> env.listeners]
            /\ getSummary(testMetrics').totalTests
                  = getSummary(testMetrics).totalTests
            /\ getSummary(testMetrics').totalLeaks
                  = getSummary(testMetrics).totalLeaks - Len(old.leaksDetected)
            /\ getSummary(testMetrics').totalWarnings
                  = getSummary(testMetrics).totalWarnings - Len(old.warnings)]_vars

\* t1 was started before t2 and started again, in a leaky process at time
\* 1, after t2 was finished with leaks: its record is the first of the two
\* and is in flight, and the leaks counted are those of t2.
C28_Witness ==
    /\ ret.op = "startTest"
    /\ ret.args = <<"t1", "f.ts">>
    /\ ret.env = Some(Leaky)
    /\ Len(testMetrics) = 2
    /\ testMetrics[1].key = "f.ts > t1"
    /\ testMetrics[1].val.startTime = 1
    /\ testMetrics[1].val.initialMemory = [heapUsed |-> HeapGrown]
    /\ testMetrics[2].val.startTime = 0
    /\ testMetrics[2].val.status # None
    /\ getSummary(testMetrics).totalLeaks
          = Len(testMetrics[2].val.leaksDetected)
    /\ getSummary(testMetrics).totalLeaks > 0

\* The identities in the list of analyses onRunComplete got.
RunReported ==
    {ret.val[1].flakyTests[i].testName : i \in DOMAIN ret.val[1].flakyTests}

\* C29: a call of onRunComplete that returns has appended to the run list
\* of every identity recorded in this run its entry of this run, once, and
\* the flaky tests it got are those of the history with these entries: an
\* identity is in the list, once, iff its run list as saved is flaky under
\* the threshold.
C29_SaveBeforeAnalyze ==
    [][(CallStep("onRunComplete") /\ ~ret'.threw) =>
        /\ \A id \in MapKeys(CurrentTests) :
              RunsOf(History', id) = Append(RunsOf(History, id), RunEntry(id))
        /\ RunReported' =
              {History'[i].key : i \in
                  {j \in DOMAIN History' :
                      Flaky(History'[j].val.runs,
                            flakyTracker'[1].flakyThreshold)}}
        /\ Len(ret'.val[1].flakyTests) = Cardinality(RunReported')]_vars

\* t1 came with 2 passed runs and failed in this run: onRunComplete left
\* it with 3 runs and got it as flaky, which its 2 runs before the save
\* would not have made it.
C29_Witness ==
    /\ ret.op = "onRunComplete"
    /\ ~ret.threw
    /\ Len(RunsOf(History, "f.ts > t1")) = 3
    /\ CountStatus(RunsOf(History, "f.ts > t1"), "passed") = 2
    /\ RunsOf(History, "f.ts > t1")[3].timestamp >= 0
    /\ RunsOf(History, "f.ts > t1")[3].status = "failed"
    /\ "f.ts > t1" \in RunReported

\* C30: a finishTest that found its record writes a heap snapshot iff
\* generateHeapSnapshots is on and the record it returns has a leak report
\* (and the snapshot file can be written): the snapshots are then those
\* there were and one named after the id and the time, and otherwise, as
\* for a record with warnings only, they are as they were.  Whether or not
\* the file could be written, finishTest returns, without throwing, the
\* finished record that the mapping holds, with its reports.
C30_SnapshotIffLeaks ==
    [][FinishStep =>
        /\ ~ret'.threw
        /\ ret'.val = Some(After)
        /\ After.status # None
        /\ IF /\ options.generateHeapSnapshots
              /\ After.leaksDetected # <<>>
              /\ fs.snapshotsWritable
           THEN /\ Cardinality(fs'.snapshots \ fs.snapshots) <= 1
                /\ fs.snapshots \subseteq fs'.snapshots
                /\ ("reports/heap-snapshots/heap-f_ts___t1-"
                      \o ToString(now) \o ".heapsnapshot") \in fs'.snapshots
           ELSE fs'.snapshots = fs.snapshots]_vars

\* With generateHeapSnapshots on and snapshot files that cannot be
\* written, finishTest returned the record of t1 with its four leak
\* reports, and no snapshot was written.
C30_Witness ==
    /\ ret.op = "finishTest"
    /\ ret.val # None
    /\ options.generateHeapSnapshots
    /\ ~fs.snapshotsWritable
    /\ Len(ret.val[1].leaksDetected) = 4
    /\ fs.snapshots = {}

(***************************************************************************)
(* The summary and the held records.                                       *)
(***************************************************************************)
\* The summary getSummary would return in this state.
Summary == getSummary(testMetrics)

\* The reports of a kind (leaksDetected or warnings) that the held records
\* hold, each named by its record and its place in the record's list.
HeldLeaks ==
    UNION {{<<i, j>> : j \in DOMAIN testMetrics[i].val.leaksDetected} :
              i \in DOMAIN testMetrics}
HeldWarnings ==
    UNION {{<<i, j>> : j \in DOMAIN testMetrics[i].val.warnings} :
              i \in DOMAIN testMetrics}

RECURSIVE Total(_, _)
\* The sum of the values f takes on the set keys.
Total(f, keys) ==
    IF keys = {} THEN 0
    ELSE LET k == CHOOSE k \in keys : TRUE
         IN  f[k] + Total(f, keys \ {k})

\* C31: in every reachable state the summary agrees with the held records:
\* totalTests is the number of held records, finished or not; totalLeaks is
\* the number of leak reports held and the sum of the values of
\* leakTypeBreakdown; totalWarnings is the number of warnings held;
\* testsWithLeaks is at most totalTests and at most totalLeaks, and
\* testsWithWarnings is at most totalTests and at most totalWarnings.
C31_SummaryIsConsistent ==
    /\ Summary.totalTests = Cardinality(MapKeys(testMetrics))
    /\ Summary.totalLeaks = Cardinality(HeldLeaks)
    /\ Summary.totalLeaks =
          Total(Summary.leakTypeBreakdown, DOMAIN Summary.leakTypeBreakdown)
    /\ Summary.totalWarnings = Cardinality(HeldWarnings)
    /\ Summary.testsWithLeaks <= Summary.totalTests
    /\ Summary.testsWithLeaks <= Summary.totalLeaks
    /\ Summary.testsWithWarnings <= Summary.totalTests
    /\ Summary.testsWithWarnings <= Summary.totalWarnings

\* Two finished records, one with a warning and three leak reports, one
\* with four leak reports: seven leak reports of four types, in two tests.
C31_Witness ==
    /\ Len(testMetrics) = 2
    /\ \A i \in DOMAIN testMetrics : testMetrics[i].val.status # None
    /\ Summary.totalLeaks = 7
    /\ Summary.totalWarnings = 1
    /\ Summary.testsWithLeaks = 2
    /\ Cardinality(DOMAIN Summary.leakTypeBreakdown) = 4

(***************************************************************************)
(* The worst offenders: the tests of one file, run one after the other as  *)
(* Jest runs them, each leaving no, one or four leak reports.              *)
(***************************************************************************)
RunName(k) == "t" \o ToString(k)
\* One more global name than Quiet: one medium leak report.
Dripping == [Quiet EXCEPT !.globalNames = <<"a", "b", "c">>]

InitOffenders == InitOn({NoOptions})
NextOffenders ==
    \/ /\ Len(testMetrics) < MaxRun
       /\ \A i \in DOMAIN testMetrics : testMetrics[i].val.status # None
       /\ startTest(RunName(Len(testMetrics) + 1), "f.ts", Quiet)
       /\ UNCHANGED <<hooks, currentLeakTestId>>
    \/ \E env \in {Quiet, Dripping, Flooded} :
          /\ currentTest # None
          /\ MapHas(testMetrics, currentTest[1])
          /\ MapGet(testMetrics, currentTest[1]).status = None
          /\ finishTest(currentTest[1], "passed", env)
          /\ UNCHANGED <<hooks, currentLeakTestId>>
    \/ GetSummary /\ UNCHANGED <<hooks, currentLeakTestId>>
    \/ cleanup /\ UNCHANGED <<hooks, currentLeakTestId>>
SpecOffenders == InitOffenders /\ [][NextOffenders]_vars

\* The held records that hold a leak report.
Leaking == {i \in DOMAIN testMetrics : testMetrics[i].val.leaksDetected # <<>>}
\* The held records that the entry names.
Named(entry) ==
    {i \in DOMAIN testMetrics :
        testMetrics[i].val.testFile \o " > " \o testMetrics[i].val.testName
            = entry.test}
LeakCount(i) == Len(testMetrics[i].val.leaksDetected)

\* C32: worstOffenders has min(5, testsWithLeaks) entries; each names one
\* held record (file, " > ", name) that holds a leak report, no two name the
\* same record, and its leakCount is the number of leak reports of that
\* record; the entries are in non-increasing order of leakCount, and no
\* record left out of the list holds more leak reports than one in it.
C32_WorstOffenders ==
    LET worst == Summary.worstOffenders
    IN  /\ Len(worst) = Min(5, Cardinality(Leaking))
        /\ \A k \in DOMAIN worst :
              /\ Cardinality(Named(worst[k])) = 1
              /\ Named(worst[k]) \subseteq Leaking
              /\ \A i \in Named(worst[k]) : worst[k].leakCount = LeakCount(i)
        /\ \A k, l \in DOMAIN worst :
              /\ k # l => worst[k].test # worst[l].test
              /\ k < l => worst[k].leakCount >= worst[l].leakCount
        /\ \A i \in Leaking :
              (\A k \in DOMAIN worst : i \notin Named(worst[k])) =>
                 \A k \in DOMAIN worst : LeakCount(i) <= worst[k].leakCount

\* Six tests leaked, the first of them once; the list names five, from four
\* reports down to one, and a test with one report is left out.
C32_Witness ==
    /\ Cardinality(Leaking) = 6
    /\ LeakCount(1) = 1
    /\ Len(Summary.worstOffenders) = 5
    /\ Summary.worstOffenders[1].leakCount = 4
    /\ Summary.worstOffenders[5].leakCount = 1

(***************************************************************************)
(* Workers: one reporter, and tests of two files whose start and result    *)
(* events reach it in any order that puts the start of a test before its   *)
(* result; each test starts once and reports once.                         *)
(***************************************************************************)
WorkerTests == {<<"t1", "f.ts">>, <<"t2", "f.ts">>, <<"t1", "g.ts">>}

\* The test has reported its result: the flaky tracker holds it.
HasReported(id) ==
    flakyTracker # None /\ MapHas(flakyTracker[1].currentRun.tests, id)

InitWorkers == InitFlakyOn({NoFiles})
NextWorkers ==
    \/ /\ flakyTracker = None
       /\ CustomReporter(NoReporterOptions)
    \/ \E t \in WorkerTests :
          /\ ~MapHas(testMetrics, TestId(t[1], t[2]))
          /\ onTestCaseStart(t[1], t[2], Quiet)
    \/ \E t \in WorkerTests, st \in {"passed", "failed"},
          env \in {Quiet, Leaky} :
          /\ MapHas(testMetrics, TestId(t[1], t[2]))
          /\ ~HasReported(TestId(t[1], t[2]))
          /\ onTestCaseResult(t[1], t[2], st, 10, 0, env)
SpecWorkers == InitWorkers /\ [][NextWorkers]_vars

\* This step is the result event of the test id.
ResultStep(id) == ~HasReported(id) /\ HasReported(id)'

\* C33: in the reporter, however the start and result events of distinct
\* tests interleave, the result event of a test finalizes the record that
\* the start event of that test opened, with the status of that test, and
\* once every started test has reported no record is left in flight.
C33_ResultFinalizesItsOwnRecord ==
    /\ [][\A t \in WorkerTests :
            LET id == TestId(t[1], t[2])
            IN  ResultStep(id) =>
                  /\ MapHas(testMetrics', id)
                  /\ MapGet(testMetrics, id).status = None
                  /\ MapGet(testMetrics', id).status =
                        Some(MapGet(flakyTracker'[1].currentRun.tests, id).status)
         ]_vars
    /\ [](  (\A i \in DOMAIN testMetrics : HasReported(testMetrics[i].key))
         => (\A i \in DOMAIN testMetrics : testMetrics[i].val.status # None))

(***************************************************************************)
(* saveHistory called again: one run whose results are saved, and saved    *)
(* again while no identity holds more than MaxSaved results of the run.    *)
(***************************************************************************)
\* The results of this behaviour in the run list of the identity.
SavedOf(id) ==
    IF MapHas(flakyTracker[1].history, id)
    THEN LET runs == MapGet(flakyTracker[1].history, id).runs
         IN  {i \in DOMAIN runs : runs[i].timestamp >= 0}
    ELSE {}

InitResave ==
    InitFlakyOn({FilesOf(f) :
                    f \in {HistoryFile("missing", <<>>),
                           HistoryFile("ok", HistoryOf(LoadedRuns(2, "mixed"),
                                                       <<>>))}})
NextResave ==
    \/ /\ flakyTracker = None
       /\ CustomReporter(NoReporterOptions)
    \/ \E n \in FlakyIds, r \in TestResults :
          /\ flakyTracker # None /\ ~RunEnded
          /\ recordTest(n, r[1], r[2], r[3])
    \/ /\ flakyTracker # None
       /\ \A n \in MapKeys(flakyTracker[1].currentRun.tests) :
             Cardinality(SavedOf(n)) <= MaxSaved
       /\ saveHistory
    \/ Tick
SpecResave == InitResave /\ [][NextResave]_vars

\* C34: saveHistory is idempotent within a run: however often it was called
\* after the recordTest calls of the run, each identity recorded in the run
\* holds exactly one history entry of this run.
C34_SaveHistoryIsIdempotent ==
    (flakyTracker # None /\ ret.op = "saveHistory") =>
        \A id \in MapKeys(flakyTracker[1].currentRun.tests) :
            Cardinality(SavedOf(id)) = 1

\* C35: in every analysis returned, passes is the number of runs of the
\* trailing window whose status is passed, also when the history holds
\* runs of another status (pending, skipped, todo).
C35_PassesCountsPassedRuns ==
    ret.op = "analyzeFlakyTests" =>
        \A i \in DOMAIN Analyses :
            Analyses[i].passes =
                CountStatus(Window(RunsOf(History, Analyses[i].testName)),
                            "passed")

(***************************************************************************)
(* Identifiers: names and files that hold the separator " > " themselves,  *)
(* as the full name of a test in a describe block titled with it, or a     *)
(* path with such a directory, may.                                        *)
(***************************************************************************)
SeparatorNames == {"t", "b > t"}
SeparatorFiles == {"a", "a > b"}

InitIds == InitOn({NoOptions})
NextIds ==
    NextOn(SeparatorNames, SeparatorFiles,
           {TestId(n, f) : n \in SeparatorNames, f \in SeparatorFiles},
           {"passed"}, {Quiet}, FALSE)
SpecIds == InitIds /\ [][NextIds]_vars

\* C36: the test id is injective: startTest calls with different pairs
\* (testName, testFile) never yield the same id, so a call never replaces the
\* record that another test holds, and a record is never finished through
\* the id made for another test; tests of the same name in different files
\* get different ids.
C36_TestIdIsInjective ==
    [][/\ CallStep("startTest") =>
             \A i \in DOMAIN testMetrics :
                 testMetrics[i].key = ret'.val[1] =>
                     <<testMetrics[i].val.testName,
                       testMetrics[i].val.testFile>> = ret'.args
       /\ \A n1 \in SeparatorNames, f1 \in SeparatorFiles,
            n2 \in SeparatorNames, f2 \in SeparatorFiles :
             (/\ CallStep("finishTest")
              /\ ret'.val # None
              /\ ret'.args[1] = TestId(n1, f1)
              /\ ret'.args[1] = TestId(n2, f2)) => (n1 = n2 /\ f1 = f2)
      ]_vars

\* C37: in every reachable state each held record is in flight or
\* finalized, and consistently so: its status is defined iff its endTime,
\* its duration and its four final snapshots are defined, and a record that
\* was never finished holds no leak report and no warning.
C37_InFlightOrFinalized ==
    \A i \in DOMAIN testMetrics :
        LET m == testMetrics[i].val
            finals == <<m.endTime, m.duration, m.finalMemory, m.finalGlobals,
                        m.finalTimers, m.finalEventListeners>>
        IN  /\ m.status # None => \A k \in DOMAIN finals : finals[k] # None
            /\ m.status = None =>
                  /\ \A k \in DOMAIN finals : finals[k] = None
                  /\ m.leaksDetected = <<>>
                  /\ m.warnings = <<>>

(***************************************************************************)
(* Options of the flaky tracker: absent, zero and other values; a history  *)
(* in which t1 failed once in ten runs and t2 every second time.           *)
(***************************************************************************)
\* The double 0.
ZeroDbl == [hi |-> 0, lo |-> 0, e |-> 0, mid |-> <<1>>]

DefaultsOptions ==
    {[maxHistoryRuns |-> m, flakyThreshold |-> t] :
        m \in {None, Some(0), Some(2), Some(5)},
        t \in {None, Some(ZeroDbl), Some(OneTenth), Some(OneHalf)}}

InitDefaults ==
    InitFlakyOn({FilesOf(HistoryFile("ok",
                    HistoryOf(LoadedRuns(10, "oldestFailed"), r2))) :
                    r2 \in {<<>>, LoadedRuns(5, "mixed")}})
NextDefaults ==
    FlakyNextOn(DefaultsOptions, {"f.ts > t1"}, {<<"passed", 10, 0>>})
SpecDefaults == InitDefaults /\ [][NextDefaults]_vars

\* The options the reporter was constructed with.
Configured == ret.args[1]

\* C38: the flaky tracker takes a configured flakyThreshold or
\* maxHistoryRuns as it is given and the defaults 0.2 and 50 only for an
\* option that is absent; so under flakyThreshold = 0 every identity with 3
\* runs or more, a passed one and a failed one among its last 20, is
\* reported flaky.
C38_OptionsAsGiven ==
    /\ [](  (ret.op = "CustomReporter" /\ ~ret.threw)
         => /\ flakyTracker[1].flakyThreshold =
                  IF Configured.flakyThreshold = None
                  THEN DefaultFlakyThreshold
                  ELSE Configured.flakyThreshold[1]
            /\ flakyTracker[1].maxHistoryRuns =
                  IF Configured.maxHistoryRuns = None
                  THEN DefaultMaxHistoryRuns
                  ELSE Configured.maxHistoryRuns[1])
    /\ [](  (/\ ret.op = "CustomReporter"
             /\ ~ret.threw
             /\ Configured.flakyThreshold = Some(ZeroDbl))
         => [](ret.op = "analyzeFlakyTests" =>
                  \A i \in DOMAIN History :
                      LET runs == History[i].val.runs
                      IN  (/\ Len(runs) >= 3
                           /\ CountStatus(Window(runs), "passed") >= 1
                           /\ CountStatus(Window(runs), "failed") >= 1)
                          => History[i].key \in Reported))

====
